---- MODULE Spec2Model ----
(***************************************************************************)
(* MedBookDB: the request-scoped unit-of-work (app/db/sql.py get_session), *)
(* the appointment booking service (app/modules/appointments/service.py)   *)
(* run inside it, and the standalone transaction() context manager         *)
(* (app/Transaction and Rollback/transaction_manager.py).                  *)
(*                                                                         *)
(* The relational store is modelled at READ COMMITTED: a session sees the  *)
(* committed rows plus its own flushed writes; an INSERT that collides     *)
(* with a committed row on a unique key fails, one that collides with an   *)
(* uncommitted row of another session waits for that session to end.       *)
(***************************************************************************)
EXTENDS Integers, FiniteSets, Sequences, TLC

(* ------------------------------ bounds -------------------------------- *)
MaxWorkers == 2      \* requests served concurrently
MaxOps == 2          \* requests started in one behaviour
MaxFaults == 1       \* store failures injected in one behaviour
MaxTmRuns == 1       \* with-blocks of transaction() entered in one behaviour
MaxRows == 3         \* appointments stored when the listings are read
MaxLimit == 2        \* largest limit a listing is asked with (the API: 100)
MaxOffset == 2       \* largest offset a listing is asked with
MaxRegs == 2         \* clients that register at the same time
MaxTime == 1         \* latest instant a slot starts or ends at

Workers == 1..MaxWorkers

(* ------------------------------ data ---------------------------------- *)
NULL == "NULL"

\* rows of the users table: two patients, two doctors, an admin
Users == {"pA", "pB", "dD", "dE", "adm"}

UserRole(u) ==
    CASE u \in {"pA", "pB"} -> "patient"
      [] u \in {"dD", "dE"} -> "doctor"
      [] OTHER -> "admin"

Doctors == {u \in Users : UserRole(u) = "doctor"}

\* routers/appointments.py:64: limit: int = Query(20, ge=1, le=100)
DefaultLimit == 20

\* ApptStatus
SCHEDULED == "scheduled"
COMPLETED == "completed"
CANCELLED == "cancelled"

\* request bodies of create the clients send: two slots of doctor dD. A body
\* may carry a patient_id, a key AppointmentCreateRequest does not declare
\* (NULL: the body has none)
FirstPayload ==
    [doctor_id |-> "dD", appointment_date |-> 1, start_time |-> 9,  end_time |-> 10,
     patient_id |-> NULL]

Payloads ==
    { FirstPayload,
      [doctor_id |-> "dD", appointment_date |-> 1, start_time |-> 10, end_time |-> 11,
       patient_id |-> NULL] }

\* the same bodies with and without a patient_id of the client's choosing
ClientPayloads ==
    { [p EXCEPT !.patient_id = u] : p \in Payloads, u \in {NULL, "pA", "pB"} }

NoPayload == [doctor_id |-> NULL, appointment_date |-> 0, start_time |-> 0, end_time |-> 0,
              patient_id |-> NULL]

\* appointment ids: a created row takes the number of its unit-of-work as its
\* fresh uuid4; SeedId is the row the store holds at start, MissingId is an id
\* no row has
SeedId == 0
MissingId == 99
NoId == -1

NoRow == [id |-> NoId, patient_id |-> NULL, doctor_id |-> NULL,
          appointment_date |-> 0, start_time |-> 0, end_time |-> 0, status |-> NULL]

\* uq_appt_doctor_day_start: the columns of the unique constraint
SlotKey(r) == <<r.doctor_id, r.appointment_date, r.start_time>>

VARIABLES
    appointments,   \* committed rows of table appointments
    audit_logs,     \* committed rows of table audit_logs
    n_started,      \* units of work started so far (the next one's number - 1)
    faults,         \* store failures injected so far
    pc,             \* per worker: position in get_session / the handler
    req,            \* per worker: the request being served
    uow,            \* per worker: number of its unit of work
    user_id,        \* per worker: get_session's user_id (audit actor)
    pending,        \* per worker: flushed, uncommitted writes of its session
    exc,            \* per worker: exception in flight ("none" if none)
    resp,           \* per worker: what the caller observes
    ret,            \* per worker: what the service returned (a row or a page)
    session,        \* per worker: "open" / "closed"
    primary,        \* per worker: the primary commit (sql.py:91) succeeded
    raised,         \* per worker: what the handler raised ("none" if it returned)
    wrote,          \* per worker: writes the handler flushed
    overlap,        \* per worker: workers whose request overlapped this one
    tm_pc,          \* transaction(): position in the context manager
    tm_user_id,     \* transaction(): its user_id argument (NULL if not given)
    tm_body,        \* transaction(): statements of the with-block still to run
    tm_conn,        \* transaction(): its connection, "none" / "open" / "closed"
    tm_log_conn,    \* log_action(): its connection, "unbound" / "open" / "closed"
    tm_pending,     \* transaction(): rows inserted, not yet committed
    tm_users,       \* committed usernames of the demo's users table
    tm_audit_log,   \* committed rows of the demo's audit_log table
    tm_exc,         \* transaction(): exception in flight
    tm_resp,        \* transaction(): what the caller of the with-block observes
    tm_committed,   \* transaction(): conn.commit() at line 63 succeeded
    tm_log_failed,  \* transaction(): a log_action call could not write its row
    tm_runs,        \* with-blocks entered so far
    workload,       \* which clients send requests: "booking", "access", "reading"
    g_pc,           \* the Gate: "idle", "next" (handed to call_next), "done"
    g_path,         \* the Gate: request.url.path
    g_header,       \* the Gate: the Authorization header of the request
    g_body,         \* the Gate: refresh_token of the request body
    g_user,         \* the Gate: request.state.user (NoUser if not set)
    g_status,       \* the Gate: status code of the response (0: none yet)
    g_called,       \* the Gate: call_next was invoked
    g_audit,        \* the Gate: actors of the audit rows the request created
    g_issued,       \* the Gate: the token the response carries
    g_detail,       \* the Gate: the detail of the response it gave by itself
    availabilities, \* committed rows of table availabilities
    av_last,        \* availability: the last request and how it was answered
    users_tbl,      \* admin: ids of the committed rows of table users
    ad_audit,       \* admin: committed rows of audit_logs of its requests
    ad_n,           \* admin: requests served so far
    ad_last,        \* admin: the last request and how it was answered
    lg_prev,        \* login: the attempt before the last and its answer
    lg_last,        \* login: the last attempt and its answer
    rg_users,       \* register: committed rows of table users
    rg_pc,          \* register: position of each client's request
    rg_email,       \* register: the email of each client's request, normalized
    rg_pending,     \* register: the row each request has flushed, not committed
    rg_status       \* register: status of each client's response (0: none yet)

tmVars == <<tm_pc, tm_user_id, tm_body, tm_conn, tm_log_conn, tm_pending,
            tm_users, tm_audit_log, tm_exc, tm_resp, tm_committed,
            tm_log_failed, tm_runs>>

\* the web application's variables other than the fault counter
webVars == <<appointments, audit_logs, n_started, pc, req, uow, user_id,
             pending, exc, resp, ret, session, primary, raised, wrote, overlap>>

gateVars == <<g_pc, g_path, g_header, g_body, g_user, g_status, g_called,
              g_audit, g_issued, g_detail>>

availVars == <<availabilities, av_last>>

\* the variables of the routers that are modelled one request at a time
adminVars == <<users_tbl, ad_audit, ad_n, ad_last>>

loginVars == <<lg_prev, lg_last>>

regVars == <<rg_users, rg_pc, rg_email, rg_pending, rg_status>>

moreVars == <<availVars, adminVars, loginVars, regVars>>

\* the variables the web application and transaction() leave alone
sideVars == <<workload, gateVars, moreVars>>

vars == <<webVars, faults, tmVars, sideVars>>

\* the variables the Gate and the handlers behind it leave alone
appVars == <<webVars, faults, tmVars, workload, moreVars>>

\* the variables the availability router leaves alone
coreVars == <<webVars, faults, tmVars, workload, gateVars>>

storeVars == <<appointments, audit_logs>>

(* ------------------------ the store's operations ---------------------- *)

\* UniqueConstraint("doctor_id", "appointment_date", "start_time"): every row
\* counts, whatever its status
UniqueViolationNone(rows, row) == FALSE

UniqueViolation(rows, row) ==
    \E r \in rows : SlotKey(r) = SlotKey(row)

\* CheckConstraint("start_time < end_time")
CheckViolation(row) == ~(row.start_time < row.end_time)

\* another session holds an uncommitted INSERT on the same unique key: the
\* INSERT waits
InsertBlocked(w, row) ==
    \E w2 \in Workers \ {w} : \E p \in pending[w2] :
        p.op = "insert" /\ SlotKey(p.row) = SlotKey(row)

\* another session holds an uncommitted UPDATE of the row: the UPDATE waits
UpdateBlocked(w, id) ==
    \E w2 \in Workers \ {w} : \E p \in pending[w2] :
        p.op = "update" /\ p.row.id = id

\* session.commit(): the session's flushed writes become committed rows
ApplyWrites(rows, ws) ==
    LET updated == { IF \E p \in ws : p.op = "update" /\ p.row.id = r.id
                     THEN [r EXCEPT !.status =
                            (CHOOSE p \in ws : p.op = "update" /\ p.row.id = r.id).row.status]
                     ELSE r : r \in rows }
    IN updated \cup { p.row : p \in { q \in ws : q.op = "insert" } }

\* session.rollback(): the flushed writes are discarded
RollbackKeep(ws) == ws

RollbackWrites(ws) == {}

\* the AuditLog row get_session inserts
AuditRow(w, label, details) ==
    [uow |-> uow[w], user_id |-> user_id[w], action |-> label, details |-> details]

(* --------------------------- get_session ------------------------------ *)

\* sql.py:78-84: the actor is the user the bearer token resolves to, None if
\* get_current_user raises
ResolveActor(token) == IF token \in Users THEN token ELSE NULL

\* the requests of the booking clients. The inputs a handler does not look
\* at before it answers are enumerated once: the slot of a create by a
\* non-patient (403 on the role alone), the caller of a cancel of an id no
\* row has (404 before the permission check), the kind of a request without
\* a token (401 before the handler runs).
BookingRequests ==
    [kind : {"create"}, token : {"pA", "pB"}, payload : Payloads,
     appointment_id : {NoId}]
    \cup
    [kind : {"create"}, token : {"dD"}, payload : {FirstPayload},
     appointment_id : {NoId}]
    \cup
    [kind : {"cancel"}, token : {"pA", "pB", "dD", "adm"}, payload : {NoPayload},
     appointment_id : {r.id : r \in appointments}]
    \cup
    [kind : {"cancel"}, token : {"pA"}, payload : {NoPayload},
     appointment_id : {MissingId}]
    \cup
    [kind : {"list_mine"}, token : {"pA", NULL}, payload : {NoPayload},
     appointment_id : {NoId}, limit : {DefaultLimit}, offset : {0}]

\* the requests of the access workload: every user calls create with every
\* body and cancel with every id
AccessRequests ==
    [kind : {"create"}, token : Users, payload : ClientPayloads,
     appointment_id : {NoId}]
    \cup
    [kind : {"cancel"}, token : Users, payload : {NoPayload},
     appointment_id : {r.id : r \in appointments} \cup {MissingId}]
    \cup
    [kind : {"list_mine"}, token : {"pA", NULL}, payload : {NoPayload},
     appointment_id : {NoId}, limit : {DefaultLimit}, offset : {0}]

\* the requests of the reading workload: every user asks for both listings
\* with every limit and offset; routers/appointments.py:64-65, 105-106 accept
\* limit >= 1 and offset >= 0
ReadRequests ==
    [kind : {"list_mine"}, token : Users, payload : {NoPayload},
     appointment_id : {NoId}, limit : 1..MaxLimit, offset : 0..MaxOffset]
    \cup
    [kind : {"list_for_doctor"}, token : Users, payload : {NoPayload},
     appointment_id : {NoId}, doctor_id : Doctors,
     limit : 1..MaxLimit, offset : 0..MaxOffset]

\* the requests a client may send next
Requests ==
    CASE workload = "booking" -> BookingRequests
      [] workload = "access" -> AccessRequests
      [] OTHER -> ReadRequests

InFlight(w) == pc[w] \notin {"idle", "done"}

\* the body raises e: control passes to the except clause of get_session
Raise(w, e) ==
    /\ exc' = [exc EXCEPT ![w] = e]
    /\ raised' = [raised EXCEPT ![w] = e]
    /\ pc' = [pc EXCEPT ![w] = "rollback"]

\* the body goes on at position p, nothing raised
Goto(w, p) ==
    /\ exc' = [exc EXCEPT ![w] = "none"]
    /\ raised' = [raised EXCEPT ![w] = "none"]
    /\ pc' = [pc EXCEPT ![w] = p]

\* the next request goes to the lowest-numbered worker that has served none
\* yet; a worker keeps the outcome of the request it served
Free(w) ==
    /\ n_started < MaxOps
    /\ pc[w] = "idle"
    /\ \A v \in Workers : v < w => pc[v] # "idle"

\* sql.py:74-89: worker w takes request r as the next unit of work; the
\* session is opened and the audit actor resolved. Nothing of this is
\* visible to the other requests, so it is taken in one step with the first
\* statements of the handler.
OpenSession(w, r) ==
    /\ req' = [req EXCEPT ![w] = r]
    /\ user_id' = [user_id EXCEPT ![w] = ResolveActor(r.token)]
    /\ n_started' = n_started + 1
    /\ uow' = [uow EXCEPT ![w] = n_started + 1]
    /\ session' = [session EXCEPT ![w] = "open"]
    /\ overlap' = [v \in Workers |->
                     IF v = w THEN {x \in Workers \ {w} : InFlight(x)}
                     ELSE IF InFlight(v) THEN overlap[v] \cup {w} ELSE overlap[v]]
    /\ resp' = [resp EXCEPT ![w] = "none"]
    /\ primary' = [primary EXCEPT ![w] = FALSE]
    /\ wrote' = [wrote EXCEPT ![w] = {}]
    /\ UNCHANGED <<storeVars, faults, pending>>
    /\ UNCHANGED <<tmVars, sideVars>>


(* ------------------- appointments: the handlers ----------------------- *)

\* the handler returns: control passes to sql.py:91
Return(w, row) ==
    /\ ret' = [ret EXCEPT ![w] = row]
    /\ pc' = [pc EXCEPT ![w] = "commit"]

\* dependencies.py:20-50 under Depends(get_current_user): a request whose
\* token does not authenticate is answered 401 before its handler runs
Unauthenticated(w) ==
    /\ Free(w)
    /\ \E r \in Requests :
        /\ r.token \notin Users
        /\ OpenSession(w, r)
        /\ Raise(w, "Unauthorized")
        /\ ret' = [ret EXCEPT ![w] = NoRow]

\* the row create builds, were the patient taken from the request body
NewAppointmentFromBody(w) ==
    [id |-> uow[w],
     patient_id |-> req[w].payload.patient_id,
     doctor_id |-> req[w].payload.doctor_id,
     appointment_date |-> req[w].payload.appointment_date,
     start_time |-> req[w].payload.start_time,
     end_time |-> req[w].payload.end_time,
     status |-> SCHEDULED]

\* service.py:76-83: the row create builds; patient_id is current_user.id
NewAppointment(w) ==
    [id |-> uow[w],
     patient_id |-> req[w].token,
     doctor_id |-> req[w].payload.doctor_id,
     appointment_date |-> req[w].payload.appointment_date,
     start_time |-> req[w].payload.start_time,
     end_time |-> req[w].payload.end_time,
     status |-> SCHEDULED]

\* service.py:65-73: an appointment of the same doctor, day and start time
\* that is not cancelled
SlotTaken(rows, p) ==
    \E r \in rows :
        /\ r.doctor_id = p.doctor_id
        /\ r.appointment_date = p.appointment_date
        /\ r.start_time = p.start_time
        /\ r.status # CANCELLED

\* service.py:61-74 (routers/appointments.py:45-54 maps the service errors
\* to HTTP 403 / 409): role check and the pre-check select
CreateCheck(w) ==
    /\ Free(w)
    /\ \E r \in Requests :
        /\ r.kind = "create" /\ r.token \in Users
        /\ OpenSession(w, r)
        /\ IF UserRole(r.token) # "patient"
           THEN Raise(w, "Forbidden")
           ELSE IF SlotTaken(appointments, r.payload)
           THEN Raise(w, "Conflict")
           ELSE Goto(w, "create_insert")
        /\ ret' = [ret EXCEPT ![w] = NoRow]

\* service.py:76-88: session.add + flush (the INSERT), refresh, return.
\* An IntegrityError of the flush is not caught by the service nor by the
\* router.
CreateInsert(w) ==
    /\ pc[w] = "create_insert"
    /\ ~InsertBlocked(w, NewAppointment(w))
    /\ IF UniqueViolation(appointments, NewAppointment(w))
          \/ CheckViolation(NewAppointment(w))
       THEN /\ Raise(w, "IntegrityError")
            /\ UNCHANGED <<pending, wrote, ret>>
       ELSE /\ pending' = [pending EXCEPT ![w] =
                             @ \cup {[op |-> "insert", row |-> NewAppointment(w)]}]
            /\ wrote' = [wrote EXCEPT ![w] = @ \cup {uow[w]}]
            /\ Return(w, NewAppointment(w))
            /\ UNCHANGED <<exc, raised>>
    /\ UNCHANGED <<storeVars, n_started, faults, req, uow, user_id,
                   resp, session, primary, overlap>>
    /\ UNCHANGED <<tmVars, sideVars>>

\* service.py:86-87 when the store fails on the refresh: the INSERT is
\* flushed and the handler raises
CreateRefreshFault(w) ==
    /\ pc[w] = "create_insert"
    /\ faults < MaxFaults
    /\ ~InsertBlocked(w, NewAppointment(w))
    /\ ~UniqueViolation(appointments, NewAppointment(w))
    /\ ~CheckViolation(NewAppointment(w))
    /\ faults' = faults + 1
    /\ pending' = [pending EXCEPT ![w] =
                     @ \cup {[op |-> "insert", row |-> NewAppointment(w)]}]
    /\ wrote' = [wrote EXCEPT ![w] = @ \cup {uow[w]}]
    /\ Raise(w, "StoreError")
    /\ UNCHANGED <<storeVars, n_started, req, uow, user_id,
                   resp, ret, session, primary, overlap>>
    /\ UNCHANGED <<tmVars, sideVars>>

\* session.get(Appointment, id)
GetAppointment(rows, id) ==
    IF \E r \in rows : r.id = id THEN CHOOSE r \in rows : r.id = id ELSE NoRow

\* service.py:152-156
NotOwnerPatientOnly(u, appt) ==
    UserRole(u) = "patient" /\ appt.patient_id # u

NotOwner(u, appt) ==
    \/ UserRole(u) = "patient" /\ appt.patient_id # u
    \/ UserRole(u) = "doctor" /\ appt.doctor_id # u

\* service.py:159-163: the statuses cancel leaves alone
CancelNoOpNever(status) == FALSE

CancelNoOp(status) == status = CANCELLED

\* service.py:148-161 (routers/appointments.py:85-94 maps the service errors
\* to HTTP 404 / 403): load, permission, idempotent return
CancelGet(w) ==
    /\ Free(w)
    /\ \E r \in Requests :
        /\ r.kind = "cancel" /\ r.token \in Users
        /\ OpenSession(w, r)
        /\ LET appt == GetAppointment(appointments, r.appointment_id) IN
             IF appt = NoRow
             THEN Raise(w, "NotFound") /\ ret' = [ret EXCEPT ![w] = NoRow]
             ELSE IF NotOwner(r.token, appt)
             THEN Raise(w, "Forbidden") /\ ret' = [ret EXCEPT ![w] = NoRow]
             ELSE IF CancelNoOp(appt.status)
             THEN Goto(w, "commit") /\ ret' = [ret EXCEPT ![w] = appt]
             ELSE Goto(w, "cancel_flush") /\ ret' = [ret EXCEPT ![w] = appt]

\* service.py:163-166: appt.status = cancelled, flush (the UPDATE), refresh
CancelFlush(w) ==
    /\ pc[w] = "cancel_flush"
    /\ ~UpdateBlocked(w, ret[w].id)
    /\ pending' = [pending EXCEPT ![w] =
                     @ \cup {[op |-> "update",
                              row |-> [ret[w] EXCEPT !.status = CANCELLED]]}]
    /\ wrote' = [wrote EXCEPT ![w] = @ \cup {ret[w].id}]
    /\ Return(w, [ret[w] EXCEPT !.status = CANCELLED])
    /\ UNCHANGED <<storeVars, n_started, faults, req, uow, user_id, exc,
                   raised, resp, session, primary, overlap>>
    /\ UNCHANGED <<tmVars, sideVars>>

(* ------------------- appointments: the listings ----------------------- *)

\* dependencies.py:20-50: the User row get_current_user loads for the token
CurrentUser(token) == [id |-> token, role |-> UserRole(token)]

\* the filter of list_mine, were no role filtered
MyCondNoFilter(current_user, a) == TRUE

\* service.py:105-110: the filter of list_mine by the caller's role
MyCond(current_user, a) ==
    IF current_user.role = "patient" THEN a.patient_id = current_user.id
    ELSE IF current_user.role = "doctor" THEN a.doctor_id = current_user.id
    ELSE TRUE

\* service.py:180-183: the filter of list_for_doctor
DoctorCond(doctor_id, a) == a.doctor_id = doctor_id /\ a.status = SCHEDULED

\* the WHERE clause of the two selects of request r
ListCond(r, a) ==
    IF r.kind = "list_mine" THEN MyCond(CurrentUser(r.token), a)
    ELSE DoctorCond(r.doctor_id, a)

\* select(func.count()).select_from(Appointment).where(cond)
CountWhere(rows, r) == Cardinality({a \in rows : ListCond(r, a)})

\* service.py:119 (date and start time descending), service.py:191 (both
\* ascending): row a sorts before row b
ComesBefore(a, b, desc) ==
    IF desc
    THEN \/ a.appointment_date > b.appointment_date
         \/ a.appointment_date = b.appointment_date /\ a.start_time > b.start_time
    ELSE \/ a.appointment_date < b.appointment_date
         \/ a.appointment_date = b.appointment_date /\ a.start_time < b.start_time

\* the sequences the store may return for ORDER BY over rows: rows equal in
\* date and start time come in either order
RECURSIVE Orderings(_, _)
Orderings(rows, desc) ==
    IF rows = {} THEN { << >> }
    ELSE UNION { { <<a>> \o s : s \in Orderings(rows \ {a}, desc) } :
                 a \in { x \in rows : \A b \in rows : ~ComesBefore(b, x, desc) } }

\* .limit(limit).offset(offset)
LimitOffset(s, limit, offset) ==
    SubSeq(s, offset + 1, IF offset + limit < Len(s) THEN offset + limit ELSE Len(s))

\* service.py:43-44: AppointmentListItem.model_validate(appt) keeps these
\* columns
to_list_item(appt) ==
    [id |-> appt.id, patient_id |-> appt.patient_id, doctor_id |-> appt.doctor_id,
     appointment_date |-> appt.appointment_date, start_time |-> appt.start_time,
     end_time |-> appt.end_time, status |-> appt.status]

\* service.py:124-133, 196-205: the page built from the selected rows and
\* the total counted before
AppointmentListPage(rows, total, limit, offset) ==
    [items |-> [i \in DOMAIN rows |-> to_list_item(rows[i])],
     total |-> total, limit |-> limit, offset |-> offset,
     has_next |-> offset + limit < total]

\* the role guard of an endpoint: the caller's user record passes if its role
\* is one of the allowed roles, else Forbidden
require_roles(allowed_roles, user) == user.role \in allowed_roles

\* the router's check, were a doctor never refused
NotThatDoctorNever(current_user, doctor_id) == FALSE

\* routers/appointments.py:112-116: a doctor asks for another doctor's schedule
NotThatDoctor(current_user, doctor_id) ==
    current_user.role = "doctor" /\ current_user.id # doctor_id

\* routers/appointments.py:58-69, service.py:105-113: list_mine up to and
\* with the count select
ListMine(w) ==
    /\ Free(w)
    /\ \E r \in Requests :
        /\ r.kind = "list_mine" /\ r.token \in Users
        /\ OpenSession(w, r)
        /\ Goto(w, "list_page")
        /\ ret' = [ret EXCEPT ![w] = [total |-> CountWhere(appointments, r)]]

\* routers/appointments.py:103-123, service.py:180-186: the role guard, the
\* router's check (403 for either), then list_for_doctor up to and with the
\* count select
AppointmentsForDoctor(w) ==
    /\ Free(w)
    /\ \E r \in Requests :
        /\ r.kind = "list_for_doctor" /\ r.token \in Users
        /\ OpenSession(w, r)
        /\ IF ~require_roles({"doctor", "admin"}, CurrentUser(r.token))
           THEN Raise(w, "Forbidden") /\ ret' = [ret EXCEPT ![w] = NoRow]
           ELSE IF NotThatDoctor(CurrentUser(r.token), r.doctor_id)
           THEN Raise(w, "Forbidden") /\ ret' = [ret EXCEPT ![w] = NoRow]
           ELSE /\ Goto(w, "list_page")
                /\ ret' = [ret EXCEPT ![w] = [total |-> CountWhere(appointments, r)]]

\* service.py:115-133, 188-205: the page select of either listing, run
\* after its count select, and the page returned
ListPage(w) ==
    /\ pc[w] = "list_page"
    /\ \E s \in Orderings({a \in appointments : ListCond(req[w], a)},
                          req[w].kind = "list_mine") :
          Return(w, AppointmentListPage(
                        LimitOffset(s, req[w].limit, req[w].offset),
                        ret[w].total, req[w].limit, req[w].offset))
    /\ UNCHANGED <<storeVars, n_started, faults, req, uow, user_id, exc,
                   raised, resp, session, primary, pending, wrote, overlap>>
    /\ UNCHANGED <<tmVars, sideVars>>

(* ------------------ get_session: after the handler -------------------- *)

\* async with AsyncSessionLocal() as session: the session is closed when
\* the block is left, normally or by an exception
LeaveOpenOnError(how) == IF how = "ok" THEN "closed" ELSE "open"

SessionExit(how) == "closed"

\* control returns to the caller with outcome r
Leave(w, r) ==
    /\ resp' = [resp EXCEPT ![w] = r]
    /\ session' = [session EXCEPT ![w] = SessionExit(IF r = "ok" THEN "ok" ELSE "error")]
    /\ pc' = [pc EXCEPT ![w] = "done"]

\* sql.py:74 were one session, made once from AsyncSessionLocal (sql.py:33-38),
\* shared by the requests in flight: it holds the writes of all of them
SessionWritesShared(w) == UNION { pending[v] : v \in Workers }

\* sql.py:74: each call of get_session makes its own session with
\* AsyncSessionLocal(); the session holds the writes of its request alone
SessionWrites(w) == pending[w]

\* the label get_session puts on the audit row of each path
AuditLabel(path) == IF path = "try" THEN "COMMIT" ELSE "ROLLBACK"

\* sql.py:91-100: await session.commit(), then insert the COMMIT audit row
\* and commit it. No handler reads audit_logs, so the two commits are taken
\* in one step.
CommitAndAudit(w) ==
    /\ pc[w] = "commit"
    /\ appointments' = ApplyWrites(appointments, SessionWrites(w))
    /\ pending' = [pending EXCEPT ![w] = {}]
    /\ primary' = [primary EXCEPT ![w] = TRUE]
    /\ audit_logs' = audit_logs \cup
          {AuditRow(w, AuditLabel("try"), "Operation completed successfully")}
    /\ Leave(w, "ok")
    /\ UNCHANGED <<n_started, faults, req, uow, user_id, exc, raised, ret,
                   wrote, overlap>>
    /\ UNCHANGED <<tmVars, sideVars>>

\* sql.py:91 when the store fails the commit: nothing is committed, the
\* exception reaches the except clause
PrimaryCommitFault(w) ==
    /\ pc[w] = "commit"
    /\ faults < MaxFaults
    /\ faults' = faults + 1
    /\ exc' = [exc EXCEPT ![w] = "StoreError"]
    /\ pc' = [pc EXCEPT ![w] = "rollback"]
    /\ UNCHANGED <<storeVars, n_started, req, uow, user_id, pending,
                   raised, resp, ret, session, primary, wrote, overlap>>
    /\ UNCHANGED <<tmVars, sideVars>>

\* sql.py:91-100 when the commit succeeds and the store fails the insert of
\* the audit row or its commit: the exception reaches the except clause
AuditCommitFault(w) ==
    /\ pc[w] = "commit"
    /\ faults < MaxFaults
    /\ faults' = faults + 1
    /\ appointments' = ApplyWrites(appointments, SessionWrites(w))
    /\ pending' = [pending EXCEPT ![w] = {}]
    /\ primary' = [primary EXCEPT ![w] = TRUE]
    /\ exc' = [exc EXCEPT ![w] = "AuditError"]
    /\ pc' = [pc EXCEPT ![w] = "rollback"]
    /\ UNCHANGED <<audit_logs, n_started, req, uow, user_id,
                   raised, resp, ret, session, wrote, overlap>>
    /\ UNCHANGED <<tmVars, sideVars>>

\* sql.py:104-115: await session.rollback(), then insert the ROLLBACK audit
\* row, commit the session (whatever writes it still holds go with it) and
\* re-raise
RollbackAndAudit(w) ==
    /\ pc[w] = "rollback"
    /\ appointments' = ApplyWrites(appointments, RollbackWrites(SessionWrites(w)))
    /\ pending' = [pending EXCEPT ![w] = {}]
    /\ audit_logs' = audit_logs \cup {AuditRow(w, AuditLabel("except"), exc[w])}
    /\ Leave(w, exc[w])
    /\ UNCHANGED <<n_started, faults, req, uow, user_id, exc, raised, ret,
                   primary, wrote, overlap>>
    /\ UNCHANGED <<tmVars, sideVars>>

\* sql.py:104-113 when the rollback succeeds and the store fails the insert
\* of the audit row or its commit: the new exception leaves the except clause
\* instead of the original one
AuditRollbackFault(w) ==
    /\ pc[w] = "rollback"
    /\ faults < MaxFaults
    /\ faults' = faults + 1
    /\ pending' = [pending EXCEPT ![w] = RollbackWrites(@)]
    /\ Leave(w, "AuditError")
    /\ UNCHANGED <<storeVars, n_started, req, uow, user_id, exc,
                   raised, ret, primary, wrote, overlap>>
    /\ UNCHANGED <<tmVars, sideVars>>

\* the positions at which the handler's body is running
InBody(w) == pc[w] \in {"create_insert", "cancel_flush", "list_page"}

\* sql.py:88-115 when the request's task is cancelled while the body awaits
\* (the client went away, or a timeout around the request expired):
\* asyncio.CancelledError is thrown in at the yield. It is not an Exception,
\* so the except clause is passed by: no session.rollback(), no audit row.
\* Leaving the async with block at line 74 closes the session, which
\* discards its uncommitted writes.
BodyCancelled(w) ==
    /\ InBody(w)
    /\ exc' = [exc EXCEPT ![w] = "CancelledError"]
    /\ raised' = [raised EXCEPT ![w] = "CancelledError"]
    /\ pending' = [pending EXCEPT ![w] = RollbackWrites(@)]
    /\ Leave(w, "CancelledError")
    /\ UNCHANGED <<storeVars, n_started, faults, req, uow, user_id, ret,
                   primary, wrote, overlap>>
    /\ UNCHANGED <<tmVars, sideVars>>

(* ---------------- security.py: tokens; middleware.py: the Gate -------- *)

\* a JWT: whether jwt.decode accepts its signature and expiry, and its
\* claims (NULL: the claim is absent)
EmptyToken == [sig |-> "none", sub |-> NULL, type |-> NULL, role |-> NULL]

\* security.py:51-53 TokenType
ACCESS == "access"
REFRESH == "refresh"

\* security.py:72-101
CreateAccessToken(subject, role) ==
    [sig |-> "good", sub |-> subject, type |-> ACCESS, role |-> role]

\* security.py:104-123
CreateRefreshToken(subject) ==
    [sig |-> "good", sub |-> subject, type |-> REFRESH, role |-> NULL]

\* the tokens clients present: those login and refresh issue, refresh
\* tokens, and tokens that are expired, forged, malformed or carry other
\* claims
GateTokens ==
    { CreateAccessToken(u, UserRole(u)) : u \in {"pA", "dD", "adm"} }
    \cup { CreateAccessToken("pA", NULL), CreateAccessToken("gone", "admin") }
    \cup { CreateRefreshToken(u) : u \in {"pA", "adm"} }
    \cup { [CreateRefreshToken("adm") EXCEPT !.role = "admin"],
           [CreateAccessToken("dD", "doctor") EXCEPT !.sig = "expired"],
           [CreateAccessToken("adm", "admin") EXCEPT !.sig = "bad"],
           [CreateAccessToken("adm", "admin") EXCEPT !.sig = "malformed"],
           [CreateAccessToken("adm", "admin") EXCEPT !.type = "other"],
           [CreateAccessToken("adm", "admin") EXCEPT !.type = NULL],
           [CreateAccessToken("adm", "admin") EXCEPT !.sub = NULL],
           [CreateAccessToken("adm", "admin") EXCEPT !.role = ""] }

InvalidToken == [sig |-> "invalid", sub |-> NULL, type |-> NULL, role |-> NULL]

\* security.py:130-146 were the claims sub and type not looked for
decode_token_unchecked(token) ==
    IF token = EmptyToken THEN InvalidToken
    ELSE IF token.sig # "good" THEN InvalidToken
    ELSE token

\* security.py:130-146: the payload, or InvalidToken where InvalidTokenError
\* is raised
decode_token(token) ==
    IF token = EmptyToken THEN InvalidToken
    ELSE IF token.sig # "good" THEN InvalidToken
    ELSE IF token.sub = NULL \/ token.type = NULL THEN InvalidToken
    ELSE token

\* security.py:149-150
is_access_token_any(payload) == TRUE

is_access_token(payload) == payload.type = ACCESS

\* security.py:153-154
is_refresh_token_any(payload) == payload.type # NULL

is_refresh_token(payload) == payload.type = REFRESH

\* the Authorization header: absent, or "<scheme> <token>"
NoHeader == [scheme |-> NULL, token |-> EmptyToken]

Headers ==
    {NoHeader}
    \cup [scheme : {"Bearer", "bearer", "Basic"}, token : GateTokens \cup {EmptyToken}]

\* str.lower() on the scheme
Lower(scheme) == IF scheme \in {"Bearer", "bearer", "BEARER"} THEN "bearer"
                 ELSE IF scheme \in {"Basic", "basic"} THEN "basic"
                 ELSE scheme

\* middleware.py:61: auth and auth.lower().startswith("bearer ")
HasBearerAny(h) == h.scheme # NULL

HasBearer(h) == h.scheme # NULL /\ Lower(h.scheme) = "bearer"

\* a path: its segments and whether it ends in a slash
P(segs, slash) == [segs |-> segs, slash |-> slash]

Paths ==
    { P(<<"api", "auth", "login">>, FALSE),
      P(<<"api", "auth", "me">>, FALSE),
      P(<<"api", "auth", "refresh">>, FALSE),
      P(<<"api", "health">>, FALSE),
      P(<<"docs">>, FALSE),
      P(<<"docs">>, TRUE),
      P(<<"api", "admin", "users">>, FALSE),
      P(<<"api", "admin">>, FALSE),
      P(<<"api", "doctor", "schedule">>, FALSE),
      P(<<"api", "users", "me">>, FALSE) }

\* re.match of "^/a/b/" or "^/a/b/.*$": the path goes on after the prefix
StartsWith(path, prefix) ==
    /\ Len(path.segs) >= Len(prefix)
    /\ SubSeq(path.segs, 1, Len(prefix)) = prefix
    /\ (Len(path.segs) > Len(prefix) \/ path.slash)

\* re.match of "^/a$"
Exactly(path, segs) == path.segs = segs /\ ~path.slash

\* main.py:19-27 ALLOW_ANONYMOUS with middleware.py:17-18 _is_whitelisted
IsWhitelistedNever(path) == FALSE

IsWhitelisted(path) ==
    \/ StartsWith(path, <<"api", "auth">>)
    \/ StartsWith(path, <<"api", "health">>)
    \/ path.segs = <<"api", "health">>
    \/ Exactly(path, <<"docs">>)
    \/ Exactly(path, <<"redoc">>)
    \/ Exactly(path, <<"openapi.json">>)
    \/ Exactly(path, <<"healthz">>)

\* main.py:29-35 ROLE_RULES
ROLE_RULES ==
    << [prefix |-> <<"api", "admin">>, allowed |-> {"admin"}],
       [prefix |-> <<"api", "doctor">>, allowed |-> {"doctor", "admin"}] >>

\* the rules whose pattern matches the path
MatchingRules(path) ==
    { i \in 1..Len(ROLE_RULES) : StartsWith(path, ROLE_RULES[i].prefix) }

\* middleware.py:96-98: some matching rule does not allow the role
RoleRefusedNever(path, role) == FALSE

RoleRefused(path, role) ==
    \E i \in MatchingRules(path) : role \notin ROLE_RULES[i].allowed

\* the Gate answers by itself
GateAnswer(code) ==
    /\ g_status' = code
    /\ g_pc' = "done"
    /\ g_called' = FALSE

\* request.state.user of a request the Gate attached nothing to
NoUser == [sub |-> NULL, role |-> NULL]

\* middleware.py:81-93 with the checks before it: the context put on
\* request.state.user
GateUser(payload) == [sub |-> payload.sub, role |-> payload.role]

\* a request leaves nothing of the one before it
NewRequest(path, header, body) ==
    /\ g_pc \in {"idle", "done"}
    /\ g_path' = path
    /\ g_header' = header
    /\ g_body' = body
    /\ g_audit' = {}
    /\ g_issued' = EmptyToken

\* the bodies of POST /auth/refresh
Bodies(path) ==
    IF path.segs = <<"api", "auth", "refresh">> THEN GateTokens ELSE {EmptyToken}

\* middleware.py:81-84 were only the presence of the role claim tested
HasRoleClaim(payload) == payload.role # NULL

\* middleware.py:81-84: "if not role" refuses an absent and an empty role
HasRole(payload) == payload.role \notin {NULL, ""}

\* middleware.py:52-101, the checks of dispatch were the role rules applied
\* to the claims before the token is validated
GateCheckRoleFirst(path, header) ==
    LET payload == decode_token(header.token) IN
    IF IsWhitelisted(path) THEN "whitelisted"
    ELSE IF HasBearer(header) /\ RoleRefused(path, header.token.role) THEN "forbidden"
    ELSE IF ~HasBearer(header) THEN "unauthorized"
    ELSE IF header.token = EmptyToken THEN "unauthorized"
    ELSE IF payload = InvalidToken THEN "unauthorized"
    ELSE IF ~is_access_token(payload) THEN "unauthorized"
    ELSE IF ~HasRole(payload) THEN "unauthorized"
    ELSE "continue"

\* middleware.py:52-101: the checks of dispatch in their order
GateCheck(path, header) ==
    LET payload == decode_token(header.token) IN
    IF IsWhitelisted(path) THEN "whitelisted"
    ELSE IF ~HasBearer(header) THEN "unauthorized"
    ELSE IF header.token = EmptyToken THEN "unauthorized"
    ELSE IF payload = InvalidToken THEN "unauthorized"
    ELSE IF ~is_access_token(payload) THEN "unauthorized"
    ELSE IF ~HasRole(payload) THEN "unauthorized"
    ELSE IF RoleRefused(path, payload.role) THEN "forbidden"
    ELSE "continue"

\* middleware.py:59-84: the detail of the JSON body of the 401 the Gate
\* answers, by the check that failed
UnauthorizedDetail(header) ==
    LET payload == decode_token(header.token) IN
    IF ~HasBearer(header) THEN "Missing or invalid Authorization header"
    ELSE IF header.token = EmptyToken THEN "Empty bearer token"
    ELSE IF payload = InvalidToken THEN "Invalid or expired token"
    ELSE IF ~is_access_token(payload) THEN "Wrong token type"
    ELSE "Token missing role claim"

\* middleware.py:52-101 RequireAuthMiddleware.dispatch: request.state.user is
\* set (line 87) once the token has passed, before the role rules are applied
Dispatch ==
    \E path \in Paths, header \in Headers :
      \E body \in Bodies(path) :
        /\ NewRequest(path, header, body)
        /\ LET check == GateCheck(path, header) IN
             /\ IF check = "unauthorized" THEN GateAnswer(401)
                ELSE IF check = "forbidden" THEN GateAnswer(403)
                ELSE /\ g_pc' = "next" /\ g_called' = TRUE /\ g_status' = 0
             /\ g_detail' = IF check = "unauthorized" THEN UnauthorizedDetail(header)
                            ELSE IF check = "forbidden"
                            THEN "Forbidden (role not allowed)"
                            ELSE "none"
             /\ g_user' = IF check \in {"forbidden", "continue"}
                          THEN GateUser(decode_token(header.token))
                          ELSE NoUser
        /\ UNCHANGED appVars

\* no code sets users.is_active to false (repository.py:46 creates users
\* active)
IsActive(u) == TRUE

\* dependencies.py:20-50 get_current_user: the status it raises (200: none)
\* and the user it returns
get_current_user(token) ==
    LET payload == decode_token(token) IN
    IF payload = InvalidToken THEN [status |-> 401, user |-> NULL]
    ELSE IF ~is_access_token(payload) THEN [status |-> 401, user |-> NULL]
    ELSE IF payload.sub \notin Users THEN [status |-> 401, user |-> NULL]
    ELSE IF ~IsActive(payload.sub) THEN [status |-> 403, user |-> NULL]
    ELSE [status |-> 200, user |-> payload.sub]

\* sql.py:78-84: the actor get_session resolves from the header; only the
\* prefix "Bearer " is removed before the token is decoded, and every
\* exception leaves the actor None
SessionActor(h) ==
    IF h.scheme = "Bearer" THEN get_current_user(h.token).user ELSE NULL

\* the handlers behind the Gate that open a session with get_session
UsesSession(path) ==
    path.segs \in { <<"api", "auth", "login">>, <<"api", "auth", "me">>,
                    <<"api", "admin", "users">>, <<"api", "users", "me">> }

\* the handler has answered
Answer(code, actors, issued) ==
    /\ g_status' = code
    /\ g_audit' = actors
    /\ g_issued' = issued
    /\ g_pc' = "done"
    /\ UNCHANGED <<g_path, g_header, g_body, g_user, g_called, g_detail>>
    /\ UNCHANGED appVars

\* auth.py:130-139 GET /auth/me under Depends(get_current_user): the
\* oauth2_scheme of dependencies.py:15-17 answers 401 without a bearer
\* header, before get_session is entered
AuthMe ==
    /\ g_pc = "next"
    /\ g_path.segs = <<"api", "auth", "me">>
    /\ IF ~HasBearer(g_header)
       THEN Answer(401, {}, EmptyToken)
       ELSE Answer(get_current_user(g_header.token).status,
                   {SessionActor(g_header)}, EmptyToken)

\* auth.py:142-170 POST /auth/refresh
AuthRefresh ==
    /\ g_pc = "next"
    /\ g_path.segs = <<"api", "auth", "refresh">>
    /\ LET payload == decode_token(g_body) IN
       IF payload = InvalidToken THEN Answer(401, {}, EmptyToken)
       ELSE IF ~is_refresh_token(payload) THEN Answer(401, {}, EmptyToken)
       ELSE Answer(200, {}, CreateAccessToken(payload.sub, NULL))

\* the other handlers: whatever they answer, those that use get_session
\* leave an audit row with the actor it resolved
CallNext ==
    /\ g_pc = "next"
    /\ g_path.segs \notin { <<"api", "auth", "me">>, <<"api", "auth", "refresh">> }
    /\ \E code \in {200, 401, 403} :
         Answer(code,
                IF UsesSession(g_path) THEN {SessionActor(g_header)} ELSE {},
                EmptyToken)

(* ------------ doctors: availability slots (routers/doctor.py) --------- *)

Times == 0..MaxTime

\* None for an Optional[datetime] and for an Optional[bool]
NoTime == -1
NoBool == "None"

\* the slot the table may hold, and an id no slot has
SlotId == 1
MissingSlot == 2

NoSlot == [id |-> NoId, doctor_id |-> NULL, start_time |-> NoTime,
           end_time |-> NoTime, is_booked |-> FALSE]

\* the requests to /availability of callers the Gate let through; is_booked
\* is a string as the body carries it
AvailRequests ==
    [op : {"create"}, caller : Users, slot_id : {NoId},
     start_time : Times, end_time : Times, is_booked : {NoBool}]
    \cup
    [op : {"update"}, caller : Users, slot_id : {SlotId, MissingSlot},
     start_time : Times \cup {NoTime}, end_time : Times \cup {NoTime},
     is_booked : {NoBool, "True"}]
    \cup
    [op : {"delete"}, caller : Users, slot_id : {SlotId, MissingSlot},
     start_time : {NoTime}, end_time : {NoTime}, is_booked : {NoBool}]

NoAvailRequest ==
    [op |-> "none", caller |-> NULL, slot_id |-> NoId, start_time |-> NoTime,
     end_time |-> NoTime, is_booked |-> NoBool, status |-> 0, guard |-> "none",
     resolved |-> FALSE, owner |-> NULL]

\* middleware.py:87-93: request.state.user of a caller whose access token
\* the Gate accepted
Context(u) == [sub |-> u, role |-> UserRole(u)]

\* permission.py:41-46: the role guard the availability router imports; it
\* returns the Gate's context
RoleGuard(allowed_roles, user) ==
    IF user.role \notin allowed_roles THEN "Forbidden" ELSE "ok"

\* schemas.py:12-18: end_time is checked against start_time
AvailabilityCreate(r) ==
    ~(r.start_time # NoTime /\ r.end_time <= r.start_time)

\* schemas.py:26-32: end_time is checked only when the body carries both
AvailabilityUpdate(r) ==
    ~(r.end_time # NoTime /\ r.start_time # NoTime /\ r.end_time <= r.start_time)

\* repository.py:41-45, doctor.py:52-58: the doctor_id of the slot, NULL if
\* no slot has the id
get_owner_id(rows, resource_id) ==
    IF \E a \in rows : a.id = resource_id
    THEN (CHOOSE a \in rows : a.id = resource_id).doctor_id
    ELSE NULL

\* the guard, were the owner resolved before the role is looked at
require_owner_or_admin_resolving(user, resource_id, rows) ==
    LET owner == get_owner_id(rows, resource_id) IN
    [outcome |-> IF owner = NULL THEN "NotFound"
                 ELSE IF user.role = "admin" THEN "ok"
                 ELSE IF owner # user.sub THEN "Forbidden" ELSE "ok",
     resolved |-> TRUE, owner |-> owner]

\* permission.py:48-62
require_owner_or_admin(user, resource_id, rows) ==
    IF user.role = "admin"
    THEN [outcome |-> "ok", resolved |-> FALSE, owner |-> NULL]
    ELSE LET owner == get_owner_id(rows, resource_id) IN
         [outcome |-> IF owner = NULL THEN "NotFound"
                      ELSE IF owner # user.sub THEN "Forbidden" ELSE "ok",
          resolved |-> TRUE, owner |-> owner]

\* repository.py:16-30: the row create_availability adds
NewSlot(rows, doctor_id, r) ==
    [id |-> IF \E a \in rows : a.id = SlotId THEN MissingSlot ELSE SlotId,
     doctor_id |-> doctor_id, start_time |-> r.start_time,
     end_time |-> r.end_time, is_booked |-> FALSE]

\* repository.py:48-73: UPDATE ... WHERE id = slot_id with the values that
\* are not None
update_availability(rows, r) ==
    { IF a.id = r.slot_id
      THEN [a EXCEPT !.start_time = IF r.start_time # NoTime THEN r.start_time ELSE @,
                     !.end_time = IF r.end_time # NoTime THEN r.end_time ELSE @,
                     !.is_booked = IF r.is_booked # NoBool THEN r.is_booked = "True" ELSE @]
      ELSE a : a \in rows }

\* repository.py:76-78: DELETE ... WHERE id = slot_id
delete_availability(rows, slot_id) == {a \in rows : a.id # slot_id}

\* doctor.py:78 reads the updated slot back through this function, which
\* repository.py does not define: the slot with the id, NoSlot if none
get_availability_by_id(rows, slot_id) ==
    IF \E a \in rows : a.id = slot_id
    THEN CHOOSE a \in rows : a.id = slot_id
    ELSE NoSlot

\* the request is answered: what the caller and the guard saw
AvailAnswer(r, status, g) ==
    av_last' = [op |-> r.op, caller |-> r.caller, slot_id |-> r.slot_id,
                start_time |-> r.start_time, end_time |-> r.end_time,
                is_booked |-> r.is_booked, status |-> status,
                guard |-> g.outcome, resolved |-> g.resolved, owner |-> g.owner]

NoGuard == [outcome |-> "none", resolved |-> FALSE, owner |-> NULL]

\* doctor.py:20-37: POST /availability/create. The guard's result is the
\* Gate's context, which has no id: user.id raises AttributeError, the
\* request is answered 500 and the session rolls back (sql.py:102-113).
create_slot ==
    \E r \in AvailRequests :
        /\ r.op = "create"
        /\ LET user == Context(r.caller) IN
           IF RoleGuard({"doctor"}, user) # "ok"
           THEN AvailAnswer(r, 403, NoGuard) /\ UNCHANGED availabilities
           ELSE IF ~AvailabilityCreate(r)
           THEN AvailAnswer(r, 422, NoGuard) /\ UNCHANGED availabilities
           ELSE IF "id" \notin DOMAIN user
           THEN AvailAnswer(r, 500, NoGuard) /\ UNCHANGED availabilities
           ELSE /\ AvailAnswer(r, 201, NoGuard)
                /\ availabilities' =
                     availabilities \cup {NewSlot(availabilities, user.id, r)}
        /\ UNCHANGED <<coreVars, adminVars, loginVars, regVars>>

\* doctor.py:62-79: PUT /availability/{id}/update, no guard. The UPDATE runs;
\* rec is a row count, never None; the slot is read back and returned, and a
\* slot that is not there fails the response model (500). The session
\* commits when the handler returns (sql.py:89-91).
update_slot ==
    \E r \in AvailRequests :
        /\ r.op = "update"
        /\ IF ~AvailabilityUpdate(r)
           THEN AvailAnswer(r, 422, NoGuard) /\ UNCHANGED availabilities
           ELSE LET rows == update_availability(availabilities, r) IN
                /\ availabilities' = rows
                /\ AvailAnswer(r, IF get_availability_by_id(rows, r.slot_id) = NoSlot
                                  THEN 500 ELSE 200, NoGuard)
        /\ UNCHANGED <<coreVars, adminVars, loginVars, regVars>>

\* doctor.py:83-95: DELETE /availability/{id}/delete behind
\* require_owner_or_admin; a row count of 0 is answered 404
delete_slot ==
    \E r \in AvailRequests :
        /\ r.op = "delete"
        /\ LET g == require_owner_or_admin(Context(r.caller), r.slot_id, availabilities) IN
           IF g.outcome = "NotFound"
           THEN AvailAnswer(r, 404, g) /\ UNCHANGED availabilities
           ELSE IF g.outcome = "Forbidden"
           THEN AvailAnswer(r, 403, g) /\ UNCHANGED availabilities
           ELSE IF delete_availability(availabilities, r.slot_id) = availabilities
           THEN AvailAnswer(r, 404, g) /\ UNCHANGED availabilities
           ELSE /\ AvailAnswer(r, 204, g)
                /\ availabilities' = delete_availability(availabilities, r.slot_id)
        /\ UNCHANGED <<coreVars, adminVars, loginVars, regVars>>

(* ------------- admin: DELETE /admin/users/{id} (api/routes/admin.py) -- *)

\* who sends the request: the admin, a patient; their access tokens stay
\* valid when their row is deleted
AdminCallers == {"adm", "pA"}

NoAdminRequest == [caller |-> NULL, target |-> NULL, status |-> 0, actor |-> NULL]

\* sql.py:78-89, dependencies.py:20-50: the table the actor is looked up in,
\* were it read after the body
ActorTableAfterBody(before, after) == after

\* sql.py:78-89: the actor is resolved before the yield, from the table as
\* the body finds it
ActorTable(before, after) == before

\* dependencies.py:38-44 under sql.py:82-86: the user the token names if the
\* table has it, None otherwise
ActorOf(caller, rows) == IF caller \in rows THEN caller ELSE NULL

\* models.py (users) 27-29, models.py (appointments) 39-43: audit_logs and
\* appointments reference users.id and restrict its deletion
Referenced(id, audit) ==
    \/ \E e \in audit : e.user_id = id
    \/ \E a \in appointments : a.patient_id = id \/ a.doctor_id = id

\* what deleting a user does to audit_logs, were the rows deleted with it
OnUserDeleteCascade(audit, id) == {e \in audit : e.user_id # id}

\* models.py (users) 27-29: audit_logs.user_id has no ondelete rule, the
\* rows stay
OnUserDelete(audit, id) == audit

\* the audit row of a request of this router
AdminAuditRow(actor, label) ==
    [uow |-> ad_n + 1, user_id |-> actor, action |-> label]

\* the store accepts the audit row: its user_id is None or the id of a row
\* of users
AuditInsertable(actor, rows) == actor = NULL \/ actor \in rows

AdminAnswer(caller, target, status, actor) ==
    /\ ad_last' = [caller |-> caller, target |-> target, status |-> status,
                   actor |-> actor]
    /\ ad_n' = ad_n + 1

\* api/routes/admin.py:22-38 behind the Gate (middleware.py:96-98) and in
\* get_session (sql.py:74-115). The Gate refuses a role other than admin
\* before any session is opened. The body deletes the row and commits; 404
\* and the store's refusal of the DELETE take the except clause. The audit
\* row is inserted with the actor resolved before the body; when the store
\* refuses it, the except clause tries a ROLLBACK row with the same actor.
delete_user ==
    /\ ad_n < MaxOps
    /\ \E caller \in AdminCallers, target \in Users :
        LET actor == ActorOf(caller, ActorTable(users_tbl, users_tbl \ {target})) IN
        IF RoleRefused(P(<<"api", "admin", "users", target>>, FALSE), UserRole(caller))
        THEN AdminAnswer(caller, target, 403, NULL) /\ UNCHANGED <<users_tbl, ad_audit>>
        ELSE IF target \notin users_tbl
        THEN /\ AdminAnswer(caller, target, 404, actor)
             /\ ad_audit' = ad_audit \cup {AdminAuditRow(actor, "ROLLBACK")}
             /\ UNCHANGED users_tbl
        ELSE IF Referenced(target, OnUserDelete(ad_audit, target))
        THEN /\ AdminAnswer(caller, target, 500, actor)
             /\ ad_audit' = ad_audit \cup {AdminAuditRow(actor, "ROLLBACK")}
             /\ UNCHANGED users_tbl
        ELSE /\ users_tbl' = users_tbl \ {target}
             /\ IF AuditInsertable(actor, users_tbl \ {target})
                THEN /\ AdminAnswer(caller, target, 200, actor)
                     /\ ad_audit' = OnUserDelete(ad_audit, target)
                                      \cup {AdminAuditRow(actor, "COMMIT")}
                ELSE /\ AdminAnswer(caller, target, 500, actor)
                     /\ ad_audit' = OnUserDelete(ad_audit, target)
    /\ UNCHANGED <<coreVars, availVars, loginVars, regVars>>

(* ------------- auth: POST /auth/login (routers/auth.py) --------------- *)

\* an email as the client types it: its letters lowered, whether the client
\* typed capitals, whether it is padded with blanks, whether it has the form
\* of an address
Email(name, upper, padded, wellformed) ==
    [name |-> name, upper |-> upper, padded |-> padded, wellformed |-> wellformed]

\* schemas.py:78-81, repository.py:31: v.strip().lower()
NormalizeEmail(e) == [e EXCEPT !.upper = FALSE, !.padded = FALSE]

\* security.py:25-31: the digest of a password (bcrypt is taken as exact)
hash_password(plain_password) == [bcrypt |-> plain_password]

\* security.py:34-44: an empty password never verifies (the stored digest
\* is never empty: password_hash is not nullable)
verify_password(plain_password, password_hash) ==
    IF plain_password = "" THEN FALSE
    ELSE password_hash = hash_password(plain_password)

\* rows of users with a password: the patient pA and the doctor dD
Accounts ==
    { [id |-> "pA", email |-> Email("a", FALSE, FALSE, TRUE),
       password_hash |-> hash_password("pw1")],
      [id |-> "dD", email |-> Email("d", FALSE, FALSE, TRUE),
       password_hash |-> hash_password("pw2")] }

\* the bodies clients send to /auth/login
LoginRequests ==
    [email : { Email(n, u, pad, TRUE) : n \in {"a", "d", "n"}, u \in BOOLEAN, pad \in BOOLEAN }
             \cup { Email("a", FALSE, FALSE, FALSE) },
     password : {"pw1", "pw2", ""}]

\* repository.py:27-34
get_by_email(email) == {u \in Accounts : u.email = NormalizeEmail(email)}

NoToken == EmptyToken

\* what the caller of /auth/login observes
LoginOutcome(status, error, detail, token) ==
    [status |-> status, error |-> error, detail |-> detail, token |-> token]

\* login, were an unknown email told apart from a wrong password
login_user_telling(payload) ==
    LET found == get_by_email(payload.email) IN
    IF found = {}
    THEN LoginOutcome(404, "UserNotFound", "user_not_found", NoToken)
    ELSE LET user == CHOOSE u \in found : TRUE IN
         IF ~verify_password(payload.password, user.password_hash)
         THEN LoginOutcome(401, "InvalidCredentials", "invalid_credentials", NoToken)
         ELSE LoginOutcome(200, "none", "none",
                           CreateAccessToken(user.id, UserRole(user.id)))

\* service.py:88-115 under routers/auth.py:73-92: InvalidCredentials becomes
\* 401 invalid_credentials
login_user(payload) ==
    LET found == get_by_email(payload.email) IN
    IF found = {}
    THEN LoginOutcome(401, "InvalidCredentials", "invalid_credentials", NoToken)
    ELSE LET user == CHOOSE u \in found : TRUE IN
         IF ~verify_password(payload.password, user.password_hash)
         THEN LoginOutcome(401, "InvalidCredentials", "invalid_credentials", NoToken)
         ELSE LoginOutcome(200, "none", "none",
                           CreateAccessToken(user.id, UserRole(user.id)))

\* the Authorization headers of the clients of /auth/login: none, or the
\* access token of a patient who is logged in already
LoginHeaders ==
    {NoHeader, [scheme |-> "Bearer", token |-> CreateAccessToken("pA", "patient")]}

\* sql.py:88-115 were the except clause to roll back without an audit row
LoginAuditCommitOnly(header, outcome) ==
    IF outcome.status = 200
    THEN <<[user_id |-> SessionActor(header), action |-> AuditLabel("try")]>>
    ELSE <<>>

\* sql.py:74-115 around auth_login: the audit rows the request's unit of work
\* inserts. The actor is resolved from the header (78-86); a handler that
\* returns gets the COMMIT row (91-100), one that raises, HTTPException 401
\* and the validation error included, gets the ROLLBACK row (102-113).
LoginAudit(header, outcome) ==
    <<[user_id |-> SessionActor(header),
       action |-> AuditLabel(IF outcome.status = 200 THEN "try" ELSE "except")]>>

NoAttempt ==
    [email |-> Email("", FALSE, FALSE, FALSE), password |-> "",
     header |-> NoHeader, audit |-> <<>>,
     outcome |-> LoginOutcome(0, "none", "none", NoToken)]

\* routers/auth.py:73-92: the body is validated (schemas.py:74-81: the
\* email is normalized, then must be an address), then login_user runs;
\* login_user reads the users table and writes no row
auth_login ==
    \E payload \in LoginRequests, header \in LoginHeaders :
        /\ lg_prev' = lg_last
        /\ LET outcome ==
                 IF ~payload.email.wellformed
                 THEN LoginOutcome(422, "ValidationError", "value_error", NoToken)
                 ELSE login_user([payload EXCEPT !.email = NormalizeEmail(@)])
           IN lg_last' =
                [email |-> payload.email, password |-> payload.password,
                 header |-> header, audit |-> LoginAudit(header, outcome),
                 outcome |-> outcome]
        /\ UNCHANGED <<coreVars, availVars, adminVars, regVars>>

(* ----------- auth: POST /auth/register (routers/auth.py) --------------- *)

\* the clients that register, each with one request, in flight together
RegClients == 1..MaxRegs

\* the emails they type: pA's, which has an account, and two new ones, with
\* or without capitals
RegEmails == { Email(n, u, FALSE, TRUE) : n \in {"a", "n", "m"}, u \in BOOLEAN }

\* repository.py:27-34 on the session of a request: the committed rows
\* with the email
RegGetByEmail(rows, email) == {u \in rows : u.email = NormalizeEmail(email)}

\* routers/auth.py:51-60 and the default handler: the except clauses of
\* auth_register name service.EmailAlreadyExists (409) and ValueError (400);
\* any other exception leaves the handler and is answered 500
RegisterStatus(error) ==
    CASE error = "EmailAlreadyExists" -> 409
      [] error = "ValueError" -> 400
      [] OTHER -> 500

\* the request of client c is answered; get_session has rolled back
RegAnswer(c, code) ==
    /\ rg_status' = [rg_status EXCEPT ![c] = code]
    /\ rg_pending' = [rg_pending EXCEPT ![c] = {}]
    /\ rg_pc' = [rg_pc EXCEPT ![c] = "done"]

\* routers/auth.py:37-50 with schemas.py:31-34 and service.py:50-66: the
\* body's email is normalized, then register_user looks for a user with it
\* and raises EmailAlreadyExists if there is one
auth_register(c) ==
    /\ rg_pc[c] = "idle"
    /\ \E e \in RegEmails :
        LET email == NormalizeEmail(e) IN
        /\ rg_email' = [rg_email EXCEPT ![c] = email]
        /\ IF RegGetByEmail(rg_users, email) # {}
           THEN RegAnswer(c, RegisterStatus("EmailAlreadyExists"))
           ELSE /\ rg_pc' = [rg_pc EXCEPT ![c] = "flush"]
                /\ UNCHANGED <<rg_status, rg_pending>>
    /\ UNCHANGED <<rg_users, coreVars, availVars, adminVars, loginVars>>

\* repository.py:37-93 create_user: session.flush() sends the INSERT. It
\* waits while another session holds an uncommitted row with the email
\* (uq_users_email); a committed row with the email makes it fail with
\* IntegrityError, which create_user raises again as
\* repository.EmailAlreadyExistsError
create_user(c) ==
    /\ rg_pc[c] = "flush"
    /\ ~\E d \in RegClients \ {c} : \E p \in rg_pending[d] : p.email = rg_email[c]
    /\ IF RegGetByEmail(rg_users, rg_email[c]) # {}
       THEN RegAnswer(c, RegisterStatus("EmailAlreadyExistsError"))
       ELSE /\ rg_pending' = [rg_pending EXCEPT ![c] =
                                {[id |-> c, email |-> rg_email[c]]}]
            /\ rg_pc' = [rg_pc EXCEPT ![c] = "commit"]
            /\ UNCHANGED rg_status
    /\ UNCHANGED <<rg_users, rg_email, coreVars, availVars, adminVars, loginVars>>

\* sql.py:89-91 after auth_register returned: the session commits the row
\* and the caller is answered 201 (routers/auth.py:27)
register_commit(c) ==
    /\ rg_pc[c] = "commit"
    /\ rg_users' = rg_users \cup rg_pending[c]
    /\ rg_pending' = [rg_pending EXCEPT ![c] = {}]
    /\ rg_status' = [rg_status EXCEPT ![c] = 201]
    /\ rg_pc' = [rg_pc EXCEPT ![c] = "done"]
    /\ UNCHANGED <<rg_email, coreVars, availVars, adminVars, loginVars>>

(* ------- transaction_manager.py: transaction() and log_action() ------- *)

\* the with-blocks of transaction_demo.py: usernames inserted into users
TmBodies == { <<"user_success1", "user_success2">>, <<"user_fail", "user_fail">> }

\* the user_id argument: not given (None) or a user
TmUserIds == {NULL, "u1"}

\* transaction_manager.py:66 and :80: if user_id
TmShouldLog(u) == u # NULL

\* transaction_manager.py:90-91: finally conn.close(), then control returns
TmLeave(r) ==
    /\ tm_conn' = "closed"
    /\ tm_resp' = r
    /\ tm_pc' = "done"

\* transaction_manager.py:59-62: get_connection(), the cursor is yielded
TmEnter ==
    /\ tm_pc \in {"idle", "done"}
    /\ tm_runs < MaxTmRuns
    /\ \E u \in TmUserIds, b \in TmBodies :
        /\ tm_user_id' = u
        /\ tm_body' = b
    /\ tm_runs' = tm_runs + 1
    /\ tm_conn' = "open"
    /\ tm_log_conn' = "unbound"
    /\ tm_pending' = {}
    /\ tm_exc' = "none"
    /\ tm_resp' = "none"
    /\ tm_committed' = FALSE
    /\ tm_log_failed' = FALSE
    /\ tm_pc' = "body"
    /\ UNCHANGED <<webVars, faults, tm_users, tm_audit_log>>
    /\ UNCHANGED sideVars

\* transaction_manager.py:59 when get_connection() fails: the exception
\* leaves transaction() before its try, no connection exists
TmConnectFault ==
    /\ tm_pc \in {"idle", "done"}
    /\ tm_runs < MaxTmRuns
    /\ faults < MaxFaults
    /\ faults' = faults + 1
    /\ \E u \in TmUserIds, b \in TmBodies :
        /\ tm_user_id' = u
        /\ tm_body' = b
    /\ tm_runs' = tm_runs + 1
    /\ tm_conn' = "none"
    /\ tm_log_conn' = "unbound"
    /\ tm_pending' = {}
    /\ tm_exc' = "none"
    /\ tm_resp' = "OperationalError"
    /\ tm_committed' = FALSE
    /\ tm_log_failed' = FALSE
    /\ tm_pc' = "done"
    /\ UNCHANGED <<webVars, tm_users, tm_audit_log>>
    /\ UNCHANGED sideVars

\* the with-block executes its next INSERT; users.username is unique
TmExecute ==
    /\ tm_pc = "body"
    /\ tm_body # << >>
    /\ IF Head(tm_body) \in tm_users \cup tm_pending
       THEN /\ tm_exc' = "UniqueViolation"
            /\ tm_pc' = "rollback"
            /\ UNCHANGED <<tm_pending, tm_body>>
       ELSE /\ tm_pending' = tm_pending \cup {Head(tm_body)}
            /\ tm_body' = Tail(tm_body)
            /\ UNCHANGED <<tm_exc, tm_pc>>
    /\ UNCHANGED <<webVars, faults, tm_user_id, tm_conn, tm_log_conn, tm_users,
                   tm_audit_log, tm_resp, tm_committed, tm_log_failed, tm_runs>>
    /\ UNCHANGED sideVars

\* transaction_manager.py:63-74: conn.commit(); the audit row is written
\* only if user_id is truthy
TmCommit ==
    /\ tm_pc = "body"
    /\ tm_body = << >>
    /\ tm_users' = tm_users \cup tm_pending
    /\ tm_pending' = {}
    /\ tm_committed' = TRUE
    /\ IF TmShouldLog(tm_user_id)
       THEN /\ tm_pc' = "log_commit"
            /\ UNCHANGED <<tm_conn, tm_resp>>
       ELSE TmLeave("ok")
    /\ UNCHANGED <<webVars, faults, tm_user_id, tm_body, tm_log_conn,
                   tm_audit_log, tm_exc, tm_log_failed, tm_runs>>
    /\ UNCHANGED sideVars

\* transaction_manager.py:63 when the store fails the commit
TmCommitFault ==
    /\ tm_pc = "body"
    /\ tm_body = << >>
    /\ faults < MaxFaults
    /\ faults' = faults + 1
    /\ tm_exc' = "OperationalError"
    /\ tm_pc' = "rollback"
    /\ UNCHANGED <<webVars, tm_user_id, tm_body, tm_conn, tm_log_conn,
                   tm_pending, tm_users, tm_audit_log, tm_resp, tm_committed,
                   tm_log_failed, tm_runs>>
    /\ UNCHANGED sideVars

\* transaction_manager.py:75-89: conn.rollback(); without a user_id the
\* exception is re-raised at once
TmRollback ==
    /\ tm_pc = "rollback"
    /\ tm_pending' = {}
    /\ IF TmShouldLog(tm_user_id)
       THEN /\ tm_pc' = "log_rollback"
            /\ UNCHANGED <<tm_conn, tm_resp>>
       ELSE TmLeave(tm_exc)
    /\ UNCHANGED <<webVars, faults, tm_user_id, tm_body, tm_log_conn, tm_users,
                   tm_audit_log, tm_exc, tm_committed, tm_log_failed, tm_runs>>
    /\ UNCHANGED sideVars

\* log_action's finally clause: conn.close() on the connection it opened
LogConnAfter(opened) == IF opened THEN "closed" ELSE "unbound"

\* transaction_manager.py:25-50: log_action on its own connection inserts
\* the row f"{action}_{result}" and commits it
TmLogAction ==
    /\ tm_pc \in {"log_commit", "log_rollback"}
    /\ tm_audit_log' = tm_audit_log \cup
          {[run |-> tm_runs, user_id |-> tm_user_id,
            action |-> IF tm_pc = "log_commit" THEN "COMMIT" ELSE "ROLLBACK"]}
    /\ tm_log_conn' = LogConnAfter(TRUE)
    /\ TmLeave(IF tm_pc = "log_commit" THEN "ok" ELSE tm_exc)
    /\ UNCHANGED <<webVars, faults, tm_user_id, tm_body, tm_pending, tm_users,
                   tm_exc, tm_committed, tm_log_failed, tm_runs>>
    /\ UNCHANGED sideVars

\* transaction_manager.py:31-48 when the INSERT or its commit fails: the
\* error is printed, not raised
TmLogWriteFault ==
    /\ tm_pc \in {"log_commit", "log_rollback"}
    /\ faults < MaxFaults
    /\ faults' = faults + 1
    /\ tm_log_conn' = LogConnAfter(TRUE)
    /\ tm_log_failed' = TRUE
    /\ TmLeave(IF tm_pc = "log_commit" THEN "ok" ELSE tm_exc)
    /\ UNCHANGED <<webVars, tm_user_id, tm_body, tm_pending, tm_users,
                   tm_audit_log, tm_exc, tm_committed, tm_runs>>
    /\ UNCHANGED sideVars

\* transaction_manager.py:29 when get_connection() fails: the error is
\* printed, then the finally clause calls close() on the unbound name conn
\* and the UnboundLocalError leaves log_action; raised at line 67 it is
\* caught at line 75, raised at line 81 it replaces the original exception
TmLogConnectFault ==
    /\ tm_pc \in {"log_commit", "log_rollback"}
    /\ faults < MaxFaults
    /\ faults' = faults + 1
    /\ tm_log_conn' = LogConnAfter(FALSE)
    /\ tm_log_failed' = TRUE
    /\ IF tm_pc = "log_commit"
       THEN /\ tm_exc' = "UnboundLocalError"
            /\ tm_pc' = "rollback"
            /\ UNCHANGED <<tm_conn, tm_resp>>
       ELSE /\ TmLeave("UnboundLocalError")
            /\ UNCHANGED tm_exc
    /\ UNCHANGED <<webVars, tm_user_id, tm_body, tm_pending, tm_users,
                   tm_audit_log, tm_committed, tm_runs>>
    /\ UNCHANGED sideVars

(* --------------------------- specification ---------------------------- *)

\* the store at start holds one appointment of patient pA with doctor dD, in
\* any of the three statuses
SeedRow(st) ==
    [id |-> SeedId, patient_id |-> "pA", doctor_id |-> "dD",
     appointment_date |-> 1, start_time |-> 10, end_time |-> 11,
     status |-> st]

InitTm ==
    /\ tm_pc = "idle"
    /\ tm_user_id = NULL
    /\ tm_body = << >>
    /\ tm_conn = "none"
    /\ tm_log_conn = "unbound"
    /\ tm_pending = {}
    /\ tm_users = {}
    /\ tm_audit_log = {}
    /\ tm_exc = "none"
    /\ tm_resp = "none"
    /\ tm_committed = FALSE
    /\ tm_log_failed = FALSE
    /\ tm_runs = 0

InitGate ==
    /\ g_pc = "idle"
    /\ g_path = P(<< >>, FALSE)
    /\ g_header = NoHeader
    /\ g_body = EmptyToken
    /\ g_user = NoUser
    /\ g_status = 0
    /\ g_called = FALSE
    /\ g_audit = {}
    /\ g_issued = EmptyToken
    /\ g_detail = "none"

\* no request served yet, nothing audited, no store failure
\* no availability slot, no request to /availability yet
InitAvailability ==
    /\ availabilities = {}
    /\ av_last = NoAvailRequest

\* every user has a row, no request to /admin/users yet
InitAdmin ==
    /\ users_tbl = Users
    /\ ad_audit = {}
    /\ ad_n = 0
    /\ ad_last = NoAdminRequest

\* no login attempt yet
InitLogin ==
    /\ lg_prev = NoAttempt
    /\ lg_last = NoAttempt

\* the users table holds pA's account; no registration yet
InitRegister ==
    /\ rg_users = {[id |-> 0, email |-> Email("a", FALSE, FALSE, TRUE)]}
    /\ rg_pc = [c \in RegClients |-> "idle"]
    /\ rg_email = [c \in RegClients |-> Email("", FALSE, FALSE, FALSE)]
    /\ rg_pending = [c \in RegClients |-> {}]
    /\ rg_status = [c \in RegClients |-> 0]

InitWorkers ==
    /\ audit_logs = {}
    /\ faults = 0
    /\ pc = [w \in Workers |-> "idle"]
    /\ req = [w \in Workers |-> [kind |-> "none", token |-> NULL,
                                 payload |-> NoPayload, appointment_id |-> NoId]]
    /\ uow = [w \in Workers |-> 0]
    /\ user_id = [w \in Workers |-> NULL]
    /\ pending = [w \in Workers |-> {}]
    /\ exc = [w \in Workers |-> "none"]
    /\ resp = [w \in Workers |-> "none"]
    /\ ret = [w \in Workers |-> NoRow]
    /\ session = [w \in Workers |-> "closed"]
    /\ primary = [w \in Workers |-> FALSE]
    /\ raised = [w \in Workers |-> "none"]
    /\ wrote = [w \in Workers |-> {}]
    /\ overlap = [w \in Workers |-> {}]

InitWeb ==
    /\ \E st \in {SCHEDULED, COMPLETED, CANCELLED} : appointments = {SeedRow(st)}
    /\ InitWorkers

\* the web application serving up to MaxOps requests
Init ==
    /\ InitWeb
    /\ InitTm
    /\ n_started = 0
    /\ workload = "booking"
    /\ InitGate
    /\ InitAvailability
    /\ InitAdmin
    /\ InitLogin
    /\ InitRegister

\* one request of the web application and the demo script's with-blocks
InitUow ==
    /\ InitWeb
    /\ InitTm
    /\ n_started = MaxOps - 1
    /\ workload = "booking"
    /\ InitGate
    /\ InitAvailability
    /\ InitAdmin
    /\ InitLogin
    /\ InitRegister

Next ==
    \E w \in Workers :
        \/ Unauthenticated(w)
        \/ CreateCheck(w)
        \/ CreateInsert(w)
        \/ CreateRefreshFault(w)
        \/ CancelGet(w)
        \/ CancelFlush(w)
        \/ ListMine(w)
        \/ ListPage(w)
        \/ CommitAndAudit(w)
        \/ PrimaryCommitFault(w)
        \/ AuditCommitFault(w)
        \/ RollbackAndAudit(w)
        \/ AuditRollbackFault(w)

Spec == Init /\ [][Next]_vars

NextUow ==
    \/ \E w \in Workers :
        \/ Unauthenticated(w)
        \/ CreateCheck(w)
        \/ CreateInsert(w)
        \/ CreateRefreshFault(w)
        \/ CancelGet(w)
        \/ CancelFlush(w)
        \/ ListMine(w)
        \/ ListPage(w)
        \/ CommitAndAudit(w)
        \/ PrimaryCommitFault(w)
        \/ AuditCommitFault(w)
        \/ RollbackAndAudit(w)
        \/ AuditRollbackFault(w)
    \/ TmEnter
    \/ TmConnectFault
    \/ TmExecute
    \/ TmCommit
    \/ TmCommitFault
    \/ TmRollback
    \/ TmLogAction
    \/ TmLogWriteFault
    \/ TmLogConnectFault

SpecUow == InitUow /\ [][NextUow]_vars

\* one request of the access workload
InitAccess ==
    /\ InitWeb
    /\ InitTm
    /\ n_started = MaxOps - 1
    /\ workload = "access"
    /\ InitGate
    /\ InitAvailability
    /\ InitAdmin
    /\ InitLogin
    /\ InitRegister

SpecAccess == InitAccess /\ [][Next]_vars

\* the Gate and the handlers behind it, one request after the other; the
\* web application's store is left as it starts
InitSpecGate ==
    /\ InitWeb
    /\ appointments = {SeedRow(SCHEDULED)}
    /\ InitTm
    /\ n_started = 0
    /\ workload = "booking"
    /\ InitGate
    /\ InitAvailability
    /\ InitAdmin
    /\ InitLogin
    /\ InitRegister

NextGate ==
    \/ Dispatch
    \/ AuthMe
    \/ AuthRefresh
    \/ CallNext

SpecGate == InitSpecGate /\ [][NextGate]_vars

\* row number i of the table when the listings are read: its slot follows
\* from i, so no two rows share (doctor, date, start time); a completed row
\* is filtered as a cancelled one is
StoredRow(i, patient, doctor, st) ==
    [id |-> i, patient_id |-> patient, doctor_id |-> doctor,
     appointment_date |-> 1 + (i % 2), start_time |-> 9 + i, end_time |-> 10 + i,
     status |-> st]

\* who booked whom, and what became of it: both patients, both doctors,
\* scheduled and cancelled appointments of each doctor
RowKinds ==
    { <<"pA", "dD", SCHEDULED>>, <<"pA", "dD", CANCELLED>>, <<"pB", "dD", SCHEDULED>>,
      <<"pA", "dE", SCHEDULED>>, <<"pB", "dE", CANCELLED>> }

\* the tables of at most MaxRows such appointments (a number with the kind
\* <<NULL, NULL, NULL>> has no row)
Stores ==
    { { StoredRow(i, f[i][1], f[i][2], f[i][3]) :
          i \in { j \in 1..MaxRows : f[j][1] # NULL } } :
      f \in [1..MaxRows -> RowKinds \cup {<<NULL, NULL, NULL>>}] }

\* one request of the reading workload over any such table
InitRead ==
    /\ appointments \in Stores
    /\ InitWorkers
    /\ InitTm
    /\ n_started = MaxOps - 1
    /\ workload = "reading"
    /\ InitGate
    /\ InitAvailability
    /\ InitAdmin
    /\ InitLogin
    /\ InitRegister

NextRead ==
    \E w \in Workers :
        \/ ListMine(w)
        \/ AppointmentsForDoctor(w)
        \/ ListPage(w)
        \/ CommitAndAudit(w)
        \/ PrimaryCommitFault(w)
        \/ AuditCommitFault(w)
        \/ RollbackAndAudit(w)
        \/ AuditRollbackFault(w)

SpecRead == InitRead /\ [][NextRead]_vars

\* one request of the booking clients that may be cancelled while its body
\* runs
NextCancel ==
    \/ Next
    \/ \E w \in Workers : BodyCancelled(w)

SpecCancel == InitUow /\ [][NextCancel]_vars

\* the availability router over a table of at most one slot of a doctor,
\* with start_time < end_time as create's validation leaves it
InitAvail ==
    /\ InitWeb
    /\ appointments = {SeedRow(SCHEDULED)}
    /\ InitTm
    /\ n_started = 0
    /\ workload = "booking"
    /\ InitGate
    /\ InitAdmin
    /\ InitLogin
    /\ InitRegister
    /\ av_last = NoAvailRequest
    /\ availabilities \in
         { {} } \cup
         { { [id |-> SlotId, doctor_id |-> d, start_time |-> t[1], end_time |-> t[2],
              is_booked |-> b] } :
           d \in Doctors, t \in {x \in Times \X Times : x[1] < x[2]}, b \in BOOLEAN }
    /\ \A a \in availabilities : a.start_time < a.end_time

NextAvail ==
    \/ create_slot
    \/ update_slot
    \/ delete_slot

SpecAvail == InitAvail /\ [][NextAvail]_vars

\* requests to DELETE /admin/users/{id}, one after the other, over a table
\* of appointments of one row
InitSpecAdmin ==
    /\ InitWeb
    /\ InitTm
    /\ n_started = 0
    /\ workload = "booking"
    /\ InitGate
    /\ InitAvailability
    /\ InitAdmin
    /\ InitLogin
    /\ InitRegister

NextAdmin == delete_user

SpecAdmin == InitSpecAdmin /\ [][NextAdmin]_vars

\* login attempts, one after the other
NextLogin == auth_login

\* registrations in flight together
NextRegister ==
    \E c \in RegClients :
        \/ auth_register(c)
        \/ create_user(c)
        \/ register_commit(c)

SpecRegister == InitSpecAdmin /\ [][NextRegister]_vars

SpecLogin == InitSpecAdmin /\ [][NextLogin]_vars


(* ------------------------------ properties ---------------------------- *)

IsCreate(w) == req[w].kind = "create"
IsCancel(w) == req[w].kind = "cancel"
ByPatient(w) == req[w].token \in Users /\ UserRole(req[w].token) = "patient"

\* the audit rows of worker w's unit of work
AuditOf(w) == {e \in audit_logs : e.uow = uow[w]}

\* C1: in every reachable committed state there is at most one appointment
\* that is not cancelled for each (doctor_id, appointment_date, start_time).
NoDoubleBooking ==
    \A a, b \in appointments :
        (SlotKey(a) = SlotKey(b) /\ a.status # CANCELLED /\ b.status # CANCELLED)
            => a = b

\* two overlapping creates of one slot have both ended, one booked it and
\* the other was refused
WitnessNoDoubleBooking ==
    \E w1, w2 \in Workers :
        /\ w1 # w2 /\ w2 \in overlap[w1]
        /\ pc[w1] = "done" /\ pc[w2] = "done"
        /\ IsCreate(w1) /\ IsCreate(w2)
        /\ req[w1].payload = req[w2].payload
        /\ resp[w1] = "ok" /\ resp[w2] # "ok"
        /\ \E a \in appointments : a.id = uow[w1] /\ a.status = SCHEDULED

\* C2: of two concurrent create calls by patients on the same (doctor, date,
\* start time), each in its own unit of work, at most one succeeds and when
\* one succeeds the caller of the other observes Conflict (stated for the
\* behaviours in which the store injects no failure).
ConcurrentCreateConflict ==
    \A w1, w2 \in Workers :
        ( /\ w1 # w2 /\ w2 \in overlap[w1]
          /\ pc[w1] = "done" /\ pc[w2] = "done"
          /\ IsCreate(w1) /\ IsCreate(w2)
          /\ ByPatient(w1) /\ ByPatient(w2)
          /\ SlotKey(req[w1].payload) = SlotKey(req[w2].payload)
          /\ faults = 0 )
        => /\ ~(resp[w1] = "ok" /\ resp[w2] = "ok")
           /\ (resp[w1] = "ok" => resp[w2] = "Conflict")

\* C3: a create by a patient whose slot holds no appointment that is not
\* cancelled (a cancelled one may exist) returns a scheduled appointment;
\* stated for a request no other request overlaps and no store failure hits.
CreateOnFreeSlotSucceeds ==
    [][\A w \in Workers :
        ( /\ pc[w] = "create_insert" /\ pc'[w] # "create_insert"
          /\ overlap[w] = {} /\ overlap'[w] = {}
          /\ ~SlotTaken(appointments, req[w].payload)
          /\ faults' = faults )
        => (pc'[w] = "commit" /\ ret'[w].status = SCHEDULED)]_vars

\* C4: no step changes the status of a stored appointment that is cancelled
\* or completed.
TerminalStatusStays ==
    [][\A a \in appointments : \A b \in appointments' :
        (a.id = b.id /\ a.status \in {CANCELLED, COMPLETED})
            => b.status = a.status]_vars

\* C5: a cancel by an authorized caller that finds the appointment cancelled
\* returns that appointment as it is, raises nothing and flushes no write;
\* and every cancel that succeeded leaves the stored appointment equal to
\* the cancelled appointment it returned, the first cancel and a repeated
\* one alike.
CancelIdempotent ==
    /\ [][\A w \in Workers :
            LET appt == GetAppointment(appointments, req'[w].appointment_id) IN
            ( /\ uow'[w] # uow[w] /\ req'[w].kind = "cancel"
              /\ appt # NoRow
              /\ ~NotOwner(req'[w].token, appt)
              /\ appt.status = CANCELLED )
            => /\ pc'[w] = "commit"
               /\ ret'[w] = appt
               /\ exc'[w] = "none"
               /\ pending'[w] = {} /\ wrote'[w] = {}]_vars
    /\ [](\A w \in Workers :
            (pc[w] = "done" /\ IsCancel(w) /\ resp[w] = "ok")
            => /\ ret[w].status = CANCELLED
               /\ GetAppointment(appointments, req[w].appointment_id) = ret[w])

\* a cancel that wrote the cancellation and a later cancel of the same
\* appointment that wrote nothing have both succeeded
WitnessCancelIdempotent ==
    \E w1, w2 \in Workers :
        /\ w1 # w2
        /\ pc[w1] = "done" /\ pc[w2] = "done"
        /\ IsCancel(w1) /\ IsCancel(w2)
        /\ req[w1].appointment_id = req[w2].appointment_id
        /\ resp[w1] = "ok" /\ resp[w2] = "ok"
        /\ wrote[w1] # {} /\ wrote[w2] = {}
        /\ ret[w1] = ret[w2]


\* C6: a unit of work of get_session whose primary transaction committed has
\* exactly one audit row, labelled COMMIT, and no ROLLBACK row, and the
\* handler's writes are stored.
CommitAuditedOnce ==
    \A w \in Workers :
        (pc[w] = "done" /\ primary[w])
        => /\ AuditOf(w) = {AuditRow(w, "COMMIT", "Operation completed successfully")}
           /\ (IsCreate(w) => \E a \in appointments : a.id = uow[w])

AuditLabelMatchesFate ==
    \A w \in Workers : \A e \in AuditOf(w) :
        /\ e.action = "ROLLBACK" => ~primary[w]
        /\ e.action = "COMMIT" => primary[w]

\* C8: the caller of a unit of work whose handler raised E observes E, and
\* the caller of one whose handler returned and whose primary transaction
\* committed observes the result, whatever happens to the audit writes.
CallerSeesOriginalError ==
    \A w \in Workers :
        pc[w] = "done"
        => /\ (raised[w] # "none" => resp[w] = raised[w])
           /\ ((raised[w] = "none" /\ primary[w]) => resp[w] = "ok")

\* C9: when control has returned to the caller, on every exit path, nothing
\* opened for the unit of work is open: the session of get_session, the
\* connection of transaction(), the connection of log_action().
SessionsClosedOnExit ==
    /\ \A w \in Workers :
          pc[w] \in {"idle", "done"} => session[w] = "closed"
    /\ tm_pc \in {"idle", "done"} => (tm_conn # "open" /\ tm_log_conn # "open")

\* a request has ended after the write of its audit row failed, and a
\* with-block has ended after log_action ran
WitnessSessionsClosed ==
    /\ \E w \in Workers :
          pc[w] = "done" /\ resp[w] = "AuditError" /\ session[w] = "closed"
    /\ tm_pc = "done" /\ tm_conn = "closed" /\ tm_log_conn = "closed"

\* C10: every exit of a unit of work leaves an audit row describing it, with
\* or without an actor, for get_session and for transaction() alike (stated
\* for the exits on which no audit write failed).
AuditOnEveryExit ==
    /\ \A w \in Workers :
          (pc[w] = "done" /\ resp[w] # "AuditError")
          => \E e \in AuditOf(w) : e.user_id = user_id[w]
    /\ (tm_pc = "done" /\ tm_conn = "closed" /\ ~tm_log_failed)
          => \E e \in tm_audit_log : e.run = tm_runs

\* C17: a create by a caller whose role is not patient is refused with
\* Forbidden and writes no appointment; the appointment a create writes has
\* the caller's id as patient id, whatever patient_id the body carries.
CreateByPatientOnly ==
    \A w \in Workers :
        (IsCreate(w) /\ req[w].token \in Users)
        => /\ (UserRole(req[w].token) # "patient"
                => /\ raised[w] = "Forbidden"
                   /\ wrote[w] = {} /\ pending[w] = {}
                   /\ \A a \in appointments : a.id # uow[w])
           /\ \A a \in appointments \cup {p.row : p \in pending[w]} :
                a.id = uow[w] => a.patient_id = req[w].token
           /\ (resp[w] = "ok" => ret[w].patient_id = req[w].token)

\* a create of patient pA whose body names pB as the patient has succeeded and
\* the stored appointment is pA's
WitnessCreateByPatientOnly ==
    \E w \in Workers :
        /\ pc[w] = "done" /\ IsCreate(w) /\ resp[w] = "ok"
        /\ req[w].token = "pA" /\ req[w].payload.patient_id = "pB"
        /\ \E a \in appointments : a.id = uow[w] /\ a.patient_id = "pA"

\* C18: the service answers a cancel of an id no row has with NotFound, a
\* cancel by a patient who is not the appointment's patient or by a doctor
\* who is not its doctor with Forbidden, and refuses no cancel of an admin;
\* a unit of work that raised NotFound or Forbidden changes no appointment.
CancelPermissions ==
    /\ [][\A w \in Workers :
            LET appt == GetAppointment(appointments, req'[w].appointment_id)
                u == req'[w].token
            IN  (uow'[w] # uow[w] /\ req'[w].kind = "cancel")
                => /\ (appt = NoRow => raised'[w] = "NotFound")
                   /\ (appt # NoRow /\ UserRole(u) = "patient" /\ appt.patient_id # u
                         => raised'[w] = "Forbidden")
                   /\ (appt # NoRow /\ UserRole(u) = "doctor" /\ appt.doctor_id # u
                         => raised'[w] = "Forbidden")
                   /\ (appt # NoRow /\ UserRole(u) = "admin"
                         => raised'[w] = "none")]_vars
    /\ [][\A w \in Workers :
            (pc'[w] # pc[w] /\ req'[w].kind = "cancel"
               /\ raised'[w] \in {"NotFound", "Forbidden"})
            => (appointments' = appointments /\ pending'[w] = {})]_vars

\* doctor dE has asked to cancel the appointment of doctor dD, was refused and
\* the appointment is as it was
WitnessCancelPermissions ==
    \E w \in Workers :
        /\ pc[w] = "done" /\ IsCancel(w)
        /\ req[w].token = "dE" /\ req[w].appointment_id = SeedId
        /\ raised[w] = "Forbidden"
        /\ appointments = {SeedRow(SCHEDULED)}

\* C33: transaction() is atomic. Rows of a with-block reach the users table
\* only by the one commit that follows its last statement, all of them
\* together, and only if no statement raised; when a statement of the body
\* raises, nothing of the block is persisted and the exception it raised is
\* the one the caller of the with-block observes.
TransactionAtomic ==
    /\ [][tm_users' # tm_users
            => /\ tm_pc = "body" /\ tm_body = << >> /\ tm_exc = "none"
               /\ tm_pending # {}
               /\ tm_users' = tm_users \cup tm_pending]_vars
    /\ []((tm_pc = "done" /\ tm_exc = "UniqueViolation")
            => (~tm_committed /\ tm_resp = "UniqueViolation"))

(* ----------------------- properties of the listings ------------------- *)

\* worker w served a listing of the given kind and its handler returned
Listed(w, kind) ==
    pc[w] = "done" /\ req[w].kind = kind /\ raised[w] = "none"

VisibleTo(u) ==
    CASE UserRole(u) = "patient" -> {a \in appointments : a.patient_id = u}
      [] UserRole(u) = "doctor" -> {a \in appointments : a.doctor_id = u}
      [] OTHER -> appointments

\* C20: list_mine returns to a patient only appointments whose patient is the
\* caller, to a doctor only appointments whose doctor is the caller, to an
\* admin any appointment; total is the number of those appointments and
\* has_next is true iff offset + limit < total.
ListMineVisibility ==
    \A w \in Workers :
        Listed(w, "list_mine") =>
            /\ \A i \in DOMAIN ret[w].items : ret[w].items[i] \in VisibleTo(req[w].token)
            /\ ret[w].total = Cardinality(VisibleTo(req[w].token))
            /\ ret[w].limit = req[w].limit /\ ret[w].offset = req[w].offset
            /\ ret[w].has_next <=> (req[w].offset + req[w].limit < ret[w].total)

\* patient pA is answered the first page of their two appointments, with
\* has_next, while the table holds an appointment of another patient
WitnessListMineVisibility ==
    \E w \in Workers :
        /\ Listed(w, "list_mine") /\ resp[w] = "ok"
        /\ req[w].token = "pA"
        /\ Len(ret[w].items) = 1 /\ ret[w].total = 2 /\ ret[w].has_next
        /\ \E a \in appointments : a.patient_id # "pA"

\* C24: a unit of work that is cancelled while its body runs (as a timeout
\* around the request cancels it) ends with its primary transaction rolled
\* back and with the write of a ROLLBACK audit row attempted: the row is
\* stored, or the caller observes the failure of that write.
CancelledRollsBackAudited ==
    \A w \in Workers :
        (pc[w] = "done" /\ raised[w] = "CancelledError")
        => /\ ~primary[w]
           /\ pending[w] = {}
           /\ \A a \in appointments : a.id # uow[w]
           /\ \/ AuditOf(w) = {AuditRow(w, "ROLLBACK", "CancelledError")}
              \/ resp[w] = "AuditError"


\* C28: requests in flight together never share a transaction. When the
\* unit of work of one request commits or rolls back, the uncommitted writes
\* of every other request stay as they are, uncommitted; a rollback leaves
\* the committed rows as they were and a commit adds to them the writes of
\* its own request and nothing else.
NoSharedTransaction ==
    [][\A w \in Workers :
         (pc[w] \in {"commit", "rollback"} /\ pc'[w] # pc[w])
         => /\ \A v \in Workers \ {w} : pending'[v] = pending[v]
            /\ pc[w] = "rollback" => appointments' = appointments
            /\ pc[w] = "commit" =>
                 appointments' \in {appointments,
                                    ApplyWrites(appointments, pending[w])}]_vars

\* a request has been rolled back during the flight of a request that began
\* before it, and that request still holds its write, uncommitted
WitnessNoSharedTransaction ==
    \E w, v \in Workers :
        /\ w # v
        /\ uow[v] < uow[w]
        /\ w \in overlap[v]
        /\ pc[v] = "commit" /\ pending[v] # {}
        /\ pc[w] = "done" /\ resp[w] # "ok" /\ raised[w] # "none"
        /\ \A p \in pending[v] : p.op = "insert" => p.row \notin appointments

(* ----------------------- properties of login -------------------------- *)

\* the attempt names an email no account has
NoSuchAccount(a) ==
    /\ a.email.wellformed
    /\ ~\E u \in Accounts : u.email.name = a.email.name

\* the attempt names an account's email and another password than its own
WrongPassword(a) ==
    /\ a.email.wellformed
    /\ \E u \in Accounts :
          u.email.name = a.email.name /\ u.password_hash.bcrypt # a.password

\* C26: a login attempt for an email with no account and a login attempt
\* with a wrong password for an existing account are answered alike: same
\* error kind, same status, same detail, no token.
LoginFailuresAlike ==
    \A a, b \in {lg_prev, lg_last} :
        (NoSuchAccount(a) /\ WrongPassword(b)) => a.outcome = b.outcome

\* an attempt for an unknown email was followed by one with a wrong
\* password for pA's account, typed with capitals; both were answered 401
WitnessLoginFailuresAlike ==
    /\ NoSuchAccount(lg_prev) /\ WrongPassword(lg_last)
    /\ lg_last.email.name = "a" /\ lg_last.email.upper /\ lg_last.password = "pw2"
    /\ lg_prev.outcome.status = 401 /\ lg_last.outcome.status = 401

RegisterEmailsUnique ==
    /\ \A u, v \in rg_users :
          NormalizeEmail(u.email) = NormalizeEmail(v.email) => u = v
    /\ \A c, d \in RegClients :
          (/\ c # d
           /\ rg_pc[c] = "done" /\ rg_pc[d] = "done"
           /\ rg_email[c] = rg_email[d])
          => /\ ~(rg_status[c] = 201 /\ rg_status[d] = 201)
             /\ rg_status[c] = 201 => rg_status[d] = 409

(* ----------------------- properties of the admin router --------------- *)

\* C25: the actor of every audit entry is the one resolved before the body
\* ran, from the user the request's token names and the users table as it
\* was then; what the body does to the table, the acting user's row
\* included, does not change it.
ActorFixedBeforeBody ==
    [][\A e \in ad_audit' \ ad_audit :
          /\ e.user_id = (IF ad_last'.caller \in users_tbl
                          THEN ad_last'.caller ELSE NULL)
          /\ e.user_id = ad_last'.actor]_vars

\* the admin deleted a user and the COMMIT entry names the admin; later the
\* same admin asked for a user that is gone and the ROLLBACK entry names the
\* admin too
WitnessActorFixedBeforeBody ==
    /\ ad_last.caller = "adm" /\ ad_last.status = 404
    /\ ad_last.target \notin users_tbl
    /\ \E e \in ad_audit : e.action = "COMMIT" /\ e.user_id = "adm"
    /\ \E e \in ad_audit : e.action = "ROLLBACK" /\ e.user_id = "adm"

\* C27: the audit entries only grow: no request removes or changes an entry
\* that is stored.
AuditAppendOnly ==
    [][ad_audit \subseteq ad_audit']_vars

\* an admin with an audit entry was asked to be deleted: the store refused,
\* the entry is there and a ROLLBACK entry was added
WitnessAuditAppendOnly ==
    /\ ad_last.caller = "adm" /\ ad_last.target = "adm" /\ ad_last.status = 500
    /\ "adm" \in users_tbl
    /\ Cardinality(ad_audit) = 2
    /\ \E e \in ad_audit : e.action = "ROLLBACK" /\ e.uow = ad_n

(* -------------------- properties of the availability router ----------- *)

\* the slot with id i, as a set: empty if the table has none
SlotsWithId(i) == {a \in availabilities : a.id = i}

\* C21: require_owner_or_admin lets an admin through without calling the
\* owner resolver; for any other caller a resource id no slot has yields
\* NotFound, a slot of another owner yields Forbidden, and the caller's own
\* slot lets the caller through.
OwnerOrAdminDecision ==
    [][av_last'.op = "delete" =>
        LET l == av_last'
            admin == UserRole(l.caller) = "admin"
        IN /\ admin => (l.guard = "ok" /\ ~l.resolved)
           /\ (~admin /\ SlotsWithId(l.slot_id) = {}) => l.guard = "NotFound"
           /\ (~admin /\ \E a \in SlotsWithId(l.slot_id) : a.doctor_id # l.caller)
                => l.guard = "Forbidden"
           /\ (~admin /\ \E a \in SlotsWithId(l.slot_id) : a.doctor_id = l.caller)
                => l.guard = "ok"]_vars

\* an admin asked to delete an id no slot has: the guard let the admin
\* through and resolved no owner; the handler then found nothing to delete
WitnessOwnerOrAdminDecision ==
    /\ av_last.op = "delete" /\ av_last.caller = "adm"
    /\ av_last.slot_id = MissingSlot
    /\ av_last.guard = "ok" /\ ~av_last.resolved
    /\ av_last.status = 404

\* C22: an update or a delete of a slot asked by a caller who is neither the
\* slot's doctor nor an admin is refused with Forbidden and leaves the table
\* as it was, and an update or a delete of an id no slot has is answered
\* NotFound.
SlotMutatedByOwnerOrAdmin ==
    [][av_last'.op \in {"update", "delete"} =>
        LET l == av_last' IN
        /\ (/\ UserRole(l.caller) # "admin"
            /\ \E a \in SlotsWithId(l.slot_id) : a.doctor_id # l.caller)
             => (l.status = 403 /\ availabilities' = availabilities)
        /\ SlotsWithId(l.slot_id) = {} => l.status = 404]_vars

CreateByDoctorSucceeds ==
    [][av_last'.op = "create" =>
        LET l == av_last' IN
        /\ UserRole(l.caller) # "doctor"
             => (l.status = 403 /\ availabilities' = availabilities)
        /\ (UserRole(l.caller) = "doctor" /\ l.start_time < l.end_time)
             => /\ l.status = 201
                /\ \E a \in availabilities' \ availabilities :
                      /\ a.doctor_id = l.caller
                      /\ a.is_booked = FALSE
                      /\ a.start_time = l.start_time
                      /\ a.end_time = l.end_time]_vars

(* ------------------------- properties of the Gate --------------------- *)

\* the paths of Paths that main.py puts on the allow-list
AllowListed ==
    { P(<<"api", "auth", "login">>, FALSE), P(<<"api", "auth", "me">>, FALSE),
      P(<<"api", "auth", "refresh">>, FALSE), P(<<"api", "health">>, FALSE),
      P(<<"docs">>, FALSE) }

BearerHeader == g_header.scheme \in {"Bearer", "bearer"}

\* the header carries a token that validates, of kind access, with a role
ValidAccessHeader ==
    /\ BearerHeader
    /\ g_header.token.sig = "good"
    /\ g_header.token.sub # NULL
    /\ g_header.token.type = ACCESS
    /\ g_header.token.role \notin {NULL, ""}

\* C11: a request to a path not on the allow-list that carries no
\* Authorization header, or one that is not of the bearer scheme, is answered
\* 401 by the Gate, the handler is not called, no identity is attached and no
\* audit row with an actor is created.
GateRequiresBearer ==
    (g_pc # "idle" /\ g_path \notin AllowListed /\ ~BearerHeader)
    => /\ g_pc = "done" /\ g_status = 401
       /\ ~g_called
       /\ g_user = NoUser
       /\ \A a \in g_audit : a = NULL

\* a request for /api/admin/users with the admin's access token under the
\* Basic scheme has been answered 401
WitnessGateRequiresBearer ==
    /\ g_pc = "done" /\ g_status = 401 /\ ~g_called
    /\ g_path = P(<<"api", "admin", "users">>, FALSE)
    /\ g_header = [scheme |-> "Basic", token |-> CreateAccessToken("adm", "admin")]

\* C12: a request with a valid access token of role R to a path not on the
\* allow-list that role rules match is let through iff R is in the allowed
\* set of every matching rule, and is answered 403 by the Gate otherwise.
GateRoleRules ==
    (g_pc # "idle" /\ g_path \notin AllowListed /\ ValidAccessHeader
       /\ MatchingRules(g_path) # {})
    => LET allowed == \A i \in MatchingRules(g_path) :
                         g_header.token.role \in ROLE_RULES[i].allowed
       IN /\ (g_called <=> allowed)
          /\ (~allowed => (g_pc = "done" /\ g_status = 403))

\* the doctor's access token has been refused 403 on /api/admin/users
WitnessGateRoleRules ==
    /\ g_pc = "done" /\ g_status = 403 /\ ~g_called
    /\ g_path = P(<<"api", "admin", "users">>, FALSE)
    /\ g_header = [scheme |-> "Bearer", token |-> CreateAccessToken("dD", "doctor")]

\* C13: a request whose token is of kind refresh is answered 401 by the Gate
\* on every path not on the allow-list, and 401 by get_current_user behind
\* GET /auth/me; no identity is attached and no audit row names an actor.
RefreshNeverAuthenticates ==
    (g_pc = "done" /\ g_header.token.type = REFRESH)
    => /\ g_user = NoUser
       /\ \A a \in g_audit : a = NULL
       /\ (g_path \notin AllowListed => (g_status = 401 /\ ~g_called))
       /\ (g_path = P(<<"api", "auth", "me">>, FALSE) => g_status = 401)

\* a refresh token with a good signature that carries the role admin has been
\* answered 401 on /api/admin/users
WitnessRefreshNeverAuthenticates ==
    /\ g_pc = "done" /\ g_status = 401 /\ ~g_called
    /\ g_path = P(<<"api", "admin", "users">>, FALSE)
    /\ g_header = [scheme |-> "Bearer",
                   token |-> [CreateRefreshToken("adm") EXCEPT !.role = "admin"]]

\* C14: the Gate answers 403 only to a request whose bearer header is
\* present, whose token validates, is of kind access and has a role; a request
\* to a path not on the allow-list that fails one of these is answered 401 by
\* the Gate, whatever role rule its path matches.
AuthenticationBeforeAuthorization ==
    /\ (g_pc = "done" /\ ~g_called /\ g_status = 403) => ValidAccessHeader
    /\ (g_pc # "idle" /\ g_path \notin AllowListed /\ ~ValidAccessHeader)
         => (g_pc = "done" /\ ~g_called /\ g_status = 401)

\* an expired token with the role doctor has been answered 401 on
\* /api/admin/users, a path whose rule does not allow doctors
WitnessAuthenticationBeforeAuthorization ==
    /\ g_pc = "done" /\ g_status = 401 /\ ~g_called
    /\ g_path = P(<<"api", "admin", "users">>, FALSE)
    /\ g_header = [scheme |-> "Bearer",
                   token |-> [CreateAccessToken("dD", "doctor") EXCEPT !.sig = "expired"]]

\* C15: a request to a path on the allow-list is handed to the next stage
\* whatever its Authorization header, the Gate answers nothing itself and
\* attaches no identity.
AllowListPassThrough ==
    (g_pc # "idle" /\ g_path \in AllowListed)
    => (g_called /\ g_user = NoUser)

\* POST /api/auth/login with an expired token in its header has reached its
\* handler
WitnessAllowListPassThrough ==
    /\ g_pc = "next" /\ g_called /\ g_user = NoUser
    /\ g_path = P(<<"api", "auth", "login">>, FALSE)
    /\ g_header.scheme = "Bearer" /\ g_header.token.sig = "expired"

\* the tokens a request has had decoded: the one of its bearer header by the
\* Gate or by get_current_user, the one of its body by POST /auth/refresh
Decoded ==
    IF g_pc = "idle" THEN {}
    ELSE {g_header.token}
         \cup (IF g_path = P(<<"api", "auth", "refresh">>, FALSE)
                THEN {g_body} ELSE {})

\* C29: decode_token either returns the claims of the token, and these hold
\* both sub and type, or raises InvalidTokenError; an empty token, one with a
\* bad signature, an expired one, a malformed one and one without sub or
\* without type all raise and never give claims.
DecodeClaimsOrInvalid ==
    \A t \in Decoded :
       LET payload == decode_token(t) IN
       /\ payload = InvalidToken
            \/ (payload = t /\ payload.sub # NULL /\ payload.type # NULL)
       /\ (t = EmptyToken \/ t.sig \in {"bad", "expired", "malformed"}
             \/ t.sub = NULL \/ t.type = NULL)
            => payload = InvalidToken

\* a token with a good signature and no sub claim has been presented on
\* /api/admin/users and was answered 401
WitnessDecodeClaimsOrInvalid ==
    /\ g_pc = "done" /\ g_status = 401 /\ ~g_called
    /\ g_path = P(<<"api", "admin", "users">>, FALSE)
    /\ g_header = [scheme |-> "Bearer",
                   token |-> [CreateAccessToken("adm", "admin") EXCEPT !.sub = NULL]]

\* C30: whenever the Gate has put a context on request.state.user, the token
\* of the header validates, is of kind access and has a non-empty role; a
\* token that validates and is of kind access with no role or an empty one is
\* answered 401 by the Gate and no context is attached.
ContextNeedsRole ==
    /\ g_user # NoUser
         => /\ BearerHeader
            /\ decode_token(g_header.token) # InvalidToken
            /\ is_access_token(g_header.token)
            /\ g_header.token.role \notin {NULL, ""}
            /\ g_user = GateUser(g_header.token)
    /\ (g_pc # "idle" /\ g_path \notin AllowListed /\ BearerHeader
          /\ decode_token(g_header.token) # InvalidToken
          /\ is_access_token(g_header.token)
          /\ g_header.token.role \in {NULL, ""})
         => (g_pc = "done" /\ g_status = 401 /\ ~g_called /\ g_user = NoUser)

\* an access token that validates with an empty role has been answered 401
\* on /api/admin/users and nothing was attached
WitnessContextNeedsRole ==
    /\ g_pc = "done" /\ g_status = 401 /\ ~g_called /\ g_user = NoUser
    /\ g_path = P(<<"api", "admin", "users">>, FALSE)
    /\ g_header = [scheme |-> "Bearer",
                   token |-> [CreateAccessToken("adm", "admin") EXCEPT !.role = ""]]

\* C34: every request the Gate refuses as unauthorized gets the same
\* response, the one a request without an Authorization header gets: the
\* same status and the same detail, whether the header is missing, the token
\* invalid or expired, of the wrong kind, or without a role.
GateFailuresAlike ==
    (g_pc = "done" /\ ~g_called /\ g_status = 401)
    => g_detail = UnauthorizedDetail(NoHeader)

\* C35: every access token issued to an existing, active user, by login or
\* by the refresh operation, is one the Gate does not refuse as unauthorized
\* when it is presented as a bearer token on a path not on the allow-list.
IssuedTokensAccepted ==
    \A t \in {g_issued, lg_last.outcome.token} :
       (t # EmptyToken /\ t.sub \in Users /\ IsActive(t.sub))
       => \A path \in Paths \ AllowListed :
             GateCheck(path, [scheme |-> "Bearer", token |-> t]) # "unauthorized"

\* C36: when the Gate has authenticated a request as subject S and its
\* handler runs under get_session, every audit row of the request names S as
\* its actor, never nobody and never another user, whatever the letter case
\* of the scheme in the header and whatever the users table holds for S.
AuditActorIsSubject ==
    (g_pc = "done" /\ g_called /\ g_user # NoUser /\ UsesSession(g_path))
    => (g_audit # {} /\ \A a \in g_audit : a = g_user.sub)

\* C16: no claims are of kind access and of kind refresh at once; the
\* refresh operation answers 200 only to a token of kind refresh and 401 to
\* one of kind access; the Gate lets through on a path not on the allow-list,
\* and get_current_user accepts, only a token of kind access.
TokenKindsExclusive ==
    /\ \A t \in {g_header.token, g_body, g_issued} :
          ~(is_access_token(t) /\ is_refresh_token(t))
    /\ (g_pc = "done" /\ g_path = P(<<"api", "auth", "refresh">>, FALSE))
         => /\ (g_status = 200 => g_body.type = REFRESH)
            /\ (g_body.type = ACCESS => (g_status = 401 /\ g_issued = EmptyToken))
    /\ (g_pc # "idle" /\ g_path \notin AllowListed /\ g_called)
         => g_header.token.type = ACCESS
    /\ (g_pc = "done" /\ g_path = P(<<"api", "auth", "me">>, FALSE) /\ g_status = 200)
         => g_header.token.type = ACCESS

\* POST /auth/refresh with a refresh token has answered 200 with a new token
\* of kind access
WitnessTokenKindsExclusive ==
    /\ g_pc = "done" /\ g_status = 200
    /\ g_path = P(<<"api", "auth", "refresh">>, FALSE)
    /\ g_body = CreateRefreshToken("pA")
    /\ is_access_token(g_issued) /\ ~is_refresh_token(g_issued)

====
